---- MODULE Spec2Model ----
(***************************************************************************)
(* LoopRoute server (server/index.js): the /api/loop and /api/reroute      *)
(* handlers, the round-trip and filler searches, and the geometry helpers  *)
(* they call, as a state machine.  One routing request is followed from    *)
(* its arrival to its response; every `await` on the routing provider is   *)
(* a suspension point, and the provider's answer is an input of the step   *)
(* that resumes the handler.                                               *)
(*                                                                         *)
(* Numbers.  Latitudes and longitudes are fixed-point integers counting    *)
(* 1/UnitsPerDeg of a degree, so that one unit is exactly two metres of    *)
(* latitude (111320 m per degree).  The modelled area lies within 0.1      *)
(* degree of the equator, where cos(lat) = 1 to seven digits and the       *)
(* great-circle distance is the planar one; distances are whole metres     *)
(* (rounded down).  NaN and null are distinguished values of the number    *)
(* domain, and the arithmetic that can meet them propagates them the way   *)
(* JavaScript does.                                                        *)
(***************************************************************************)
EXTENDS Integers, Sequences, FiniteSets, TLC

\* ------------------------------------------------------------------------
\* JavaScript values
\* ------------------------------------------------------------------------

\* the value NaN of the number domain (Number("abc"), Number(undefined))
NaN == -999999999

\* the value null where a number is expected (lineDistanceM of "no path")
Null == -888888888

IsNum(x) == x # NaN /\ x # Null

\* a field of a JSON request body: absent, a number, or a non-numeric string
Undef == [t |-> "undef", v |-> 0]

Num(n) == [t |-> "num", v |-> n]

Str == [t |-> "str", v |-> 0]

\* !x is false: a non-empty string, or a number other than 0
\* Truthy that takes the number 0 for a value
TruthyOfZero(x) == x.t \in {"str", "num"}

Truthy(x) == x.t = "str" \/ (x.t = "num" /\ x.v # 0)

\* Number(x)
Number(x) == IF x.t = "num" THEN x.v ELSE NaN

\* Number.isFinite(x): true of numbers only, never of strings
NumberIsFinite(x) == x.t = "num"

Abs(x) == IF x < 0 THEN -x ELSE x

Min(a, b) == IF a < b THEN a ELSE b

\* Max without its first argument: no floor
MaxOfSecond(a, b) == b

Max(a, b) == IF a > b THEN a ELSE b

\* Math.min / Math.max: NaN if either argument is NaN
MathMin(a, b) == IF a = NaN \/ b = NaN THEN NaN ELSE Min(a, b)

MathMax(a, b) == IF a = NaN \/ b = NaN THEN NaN ELSE Max(a, b)

\* a + b and a * b on numbers that may be NaN
JsAdd(a, b) == IF a = NaN \/ b = NaN THEN NaN ELSE a + b

JsMul(a, b) == IF a = NaN \/ b = NaN THEN NaN ELSE a * b

\* JsLt with its sides exchanged
JsLtFlipped(a, b) == a # NaN /\ b # NaN /\ b < a

\* a < b in JavaScript: false when either side is NaN
JsLt(a, b) == a # NaN /\ b # NaN /\ a < b

\* floor(a / b + 1/2) for b > 0: Math.round of a quotient
RoundDiv(a, b) == (2 * a + b) \div (2 * b)

RECURSIVE IsqrtFrom(_, _, _)
IsqrtFrom(n, lo, hi) ==
    IF lo >= hi THEN lo
    ELSE LET mid == (lo + hi + 1) \div 2
         IN  IF mid * mid <= n THEN IsqrtFrom(n, mid, hi)
             ELSE IsqrtFrom(n, lo, mid - 1)

\* the integer part of the square root of n, 0 <= n < 2^31
Isqrt(n) == IsqrtFrom(n, 0, Min(n, 46340))

\* Math.hypot(x, y), in whole metres
Hypot(x, y) ==
    IF x = 0 THEN Abs(y) ELSE IF y = 0 THEN Abs(x) ELSE Isqrt(x * x + y * y)

\* ------------------------------------------------------------------------
\* Geo-metric primitives
\* ------------------------------------------------------------------------

mPerDegLat == 111320

\* fixed-point scale of a coordinate: units per degree (2 m of latitude each)
UnitsPerDeg == mPerDegLat \div 2

\* metres spanned by d coordinate units: d degrees * 111320 (* cos(avgLat) = 1)
DegToMeters(d) == (d * mPerDegLat) \div UnitsPerDeg

metersToDegLat(m) == IF m = NaN THEN NaN ELSE RoundDiv(m * UnitsPerDeg, mPerDegLat)

metersToDegLng(m, atLat) ==
    IF m = NaN \/ atLat = NaN THEN NaN ELSE RoundDiv(m * UnitsPerDeg, mPerDegLat)

\* great-circle distance in metres; NaN if a coordinate is NaN
haversineM(lat1, lon1, lat2, lon2) ==
    IF lat1 = NaN \/ lon1 = NaN \/ lat2 = NaN \/ lon2 = NaN THEN NaN
    ELSE Hypot(DegToMeters(lon2 - lon1), DegToMeters(lat2 - lat1))

\* a coordinate is <<lng, lat>>; element k (0-based) of a coordinate array
At(c, k) == c[k + 1]

Lng(p) == p[1]

Lat(p) == p[2]

RECURSIVE LineDistFrom(_, _, _)
LineDistFrom(c, i, total) ==
    IF i >= Len(c) THEN total
    ELSE LineDistFrom(c, i + 1,
            total + haversineM(Lat(At(c, i - 1)), Lng(At(c, i - 1)),
                               Lat(At(c, i)), Lng(At(c, i))))

lineDistanceM(coordsLngLat) ==
    IF Len(coordsLngLat) < 2 THEN Null ELSE LineDistFrom(coordsLngLat, 1, 0)

\* ------------------------------------------------------------------------
\* Route geometry analyzers
\* ------------------------------------------------------------------------

\* a ratio a / b of whole numbers, b # 0, is the pair <<a, b>>; <<NaN, 1>> is
\* NaN and <<Null, 1>> is null
One == <<1, 1>>

RatioNaN == <<NaN, 1>>

RatioNull == <<Null, 1>>

RECURSIVE Gcd(_, _)
Gcd(a, b) == IF b = 0 THEN a ELSE Gcd(b, a % b)

\* the ratio in lowest terms, with a positive denominator
Reduce(r) ==
    LET g == Gcd(Abs(r[1]), Abs(r[2]))
        sgn == IF r[2] < 0 THEN -1 ELSE 1
    IN  <<sgn * (r[1] \div g), sgn * (r[2] \div g)>>

\* r < s and r <= s in JavaScript: false when either side is NaN
RatioLt(r, s) ==
    /\ r[1] # NaN
    /\ s[1] # NaN
    /\ IF (r[2] > 0) = (s[2] > 0) THEN r[1] * s[2] < s[1] * r[2]
                                  ELSE r[1] * s[2] > s[1] * r[2]

RatioLe(r, s) ==
    /\ r[1] # NaN
    /\ s[1] # NaN
    /\ IF (r[2] > 0) = (s[2] > 0) THEN r[1] * s[2] <= s[1] * r[2]
                                  ELSE r[1] * s[2] >= s[1] * r[2]

\* r + s on reduced ratios
RatioAdd(r, s) == Reduce(<<r[1] * s[2] + s[1] * r[2], r[2] * s[2]>>)

\* the grid cell of a segment's midpoint: Math.round(mid / snap) per axis
CellKey(p1, p2, gridMeters) ==
    <<RoundDiv((Lat(p1) + Lat(p2)) * mPerDegLat, 2 * UnitsPerDeg * gridMeters),
      RoundDiv((Lng(p1) + Lng(p2)) * mPerDegLat, 2 * UnitsPerDeg * gridMeters)>>

\* how far apart (in segment indices) a revisit must be to count as overlap
OverlapGap == 12

RECURSIVE OverlapFrom(_, _, _, _, _, _)
OverlapFrom(c, gridMeters, i, seen, overlapped, total) ==
    IF i >= Len(c) THEN <<overlapped, total>>
    ELSE LET p1 == At(c, i - 1)
             p2 == At(c, i)
             segLen == haversineM(Lat(p1), Lng(p1), Lat(p2), Lng(p2))
             key == CellKey(p1, p2, gridMeters)
             known == key \in DOMAIN seen
         IN  IF known /\ i - seen[key] > OverlapGap
             THEN OverlapFrom(c, gridMeters, i + 1, seen,
                              overlapped + segLen, total + segLen)
             ELSE IF ~known
             THEN OverlapFrom(c, gridMeters, i + 1,
                              (key :> i) @@ seen,
                              overlapped, total + segLen)
             ELSE OverlapFrom(c, gridMeters, i + 1, seen, overlapped, total + segLen)

\* the fraction of the path's length that revisits a grid cell, as <<a, b>>
overlapRatio(coordsLngLat, gridMeters) ==
    IF Len(coordsLngLat) < 3 THEN One
    ELSE LET r == OverlapFrom(coordsLngLat, gridMeters, 1, << >>, 0, 0)
         IN  IF r[2] > 0 THEN r ELSE One

closeM == 12

minSteps == 18

maxSteps == 90

MinSpurPoints == 40

\* the j loop of hasShortOutAndBackSpur for start index i, from step j on
RECURSIVE SpurWalk(_, _, _, _, _)
SpurWalk(c, maxDetourM, i, j, detour) ==
    IF j >= Min(Len(c), i + maxSteps) THEN FALSE
    ELSE LET prev == At(c, j - 1)
             cur == At(c, j)
             a == At(c, i)
             d == detour + haversineM(Lat(prev), Lng(prev), Lat(cur), Lng(cur))
         IN  IF j - i >= minSteps
                /\ haversineM(Lat(a), Lng(a), Lat(cur), Lng(cur)) <= closeM
                /\ d <= maxDetourM
             THEN TRUE
             ELSE IF d > maxDetourM THEN FALSE
             ELSE SpurWalk(c, maxDetourM, i, j + 1, d)

\* the i loop of hasShortOutAndBackSpur, from start index i on
RECURSIVE SpurScan(_, _, _)
SpurScan(c, maxDetourM, i) ==
    IF i >= Len(c) - (minSteps + 1) THEN FALSE
    ELSE SpurWalk(c, maxDetourM, i, i + 1, 0) \/ SpurScan(c, maxDetourM, i + 1)

hasShortOutAndBackSpur(coordsLngLat, maxDetourM) ==
    IF Len(coordsLngLat) < MinSpurPoints THEN FALSE
    ELSE SpurScan(coordsLngLat, maxDetourM, 0)

\* ------------------------------------------------------------------------
\* Waypoints and detour helpers
\* ------------------------------------------------------------------------

\* a JSON array field is [isArray, items]; a waypoint item is [lat, lng] of
\* request-body values
NoArray == [isArray |-> FALSE, items |-> << >>]

Array(items) == [isArray |-> TRUE, items |-> items]

RECURSIVE FilterMapWaypoints(_, _)
FilterMapWaypoints(items, k) ==
    IF k > Len(items) THEN << >>
    ELSE LET w == items[k]
             rest == FilterMapWaypoints(items, k + 1)
         IN  IF NumberIsFinite(w.lat) /\ NumberIsFinite(w.lng)
             THEN <<[lat |-> Number(w.lat), lng |-> Number(w.lng)]>> \o rest
             ELSE rest

\* normalizeWaypoints that stops at the first waypoint it cannot use
normalizeWaypointsPrefix(waypoints) ==
    IF ~waypoints.isArray THEN << >>
    ELSE LET items == waypoints.items
             Usable(k) == \A j \in 1..k : NumberIsFinite(items[j].lat)
                                          /\ NumberIsFinite(items[j].lng)
             n == CHOOSE k \in 0..Len(items) :
                     Usable(k) /\ (k = Len(items) \/ ~Usable(k + 1))
         IN  [k \in 1..n |-> [lat |-> Number(items[k].lat),
                              lng |-> Number(items[k].lng)]]

normalizeWaypoints(waypoints) ==
    IF ~waypoints.isArray THEN << >> ELSE FilterMapWaypoints(waypoints.items, 1)

\* below this planar start-to-waypoint distance the detour is placed due north
MinDetourBase == 50

\* side is the outcome of Math.random() < 0.5 ? -1 : 1
makeDetourWaypoint(start, wp, offsetMeters, side) ==
    LET lat1 == start.lat
        lng1 == start.lng
        lat2 == wp.lat
        lng2 == wp.lng
        bad == lat1 = NaN \/ lng1 = NaN
        x == IF bad THEN NaN ELSE DegToMeters(lng2 - lng1)
        y == IF bad THEN NaN ELSE DegToMeters(lat2 - lat1)
        len == IF bad THEN NaN ELSE Hypot(x, y)
    IN  IF len = NaN \/ len < MinDetourBase
        THEN [lat |-> JsAdd(lat2, metersToDegLat(offsetMeters)), lng |-> lng2]
        ELSE IF offsetMeters = NaN THEN [lat |-> NaN, lng |-> NaN]
        ELSE LET dxM == RoundDiv(-y * offsetMeters * side, len)
                 dyM == RoundDiv(x * offsetMeters * side, len)
             IN  [lat |-> lat2 + metersToDegLat(dyM),
                  lng |-> lng2 + metersToDegLng(dxM, (lat1 + lat2) \div 2)]

RECURSIVE WaypointCoords(_, _)
WaypointCoords(waypoints, k) ==
    IF k > Len(waypoints) THEN << >>
    ELSE <<<<waypoints[k].lng, waypoints[k].lat>>>> \o WaypointCoords(waypoints, k + 1)

\* buildDirectionsCoordinates without the closing start
buildDirectionsCoordinatesOpen(startLat, startLng, waypoints) ==
    <<<<startLng, startLat>>>> \o WaypointCoords(waypoints, 1)

buildDirectionsCoordinates(startLat, startLng, waypoints) ==
    <<<<startLng, startLat>>>> \o WaypointCoords(waypoints, 1)
        \o <<<<startLng, startLat>>>>

\* ------------------------------------------------------------------------
\* Avoid polygons from blocked segments
\* ------------------------------------------------------------------------

\* a blocked segment is [a, b]; an endpoint is [present, lat, lng] of
\* request-body values
NoPoint == [present |-> FALSE, lat |-> Undef, lng |-> Undef]

Point(lat, lng) == [present |-> TRUE, lat |-> lat, lng |-> lng]

\* below this planar length a segment is degenerate
MinSegmentLen == 2

\* segmentToRectanglePolygon with p3 and p4 exchanged: the ring crosses itself
segmentToRectanglePolygonCrossed(a, b, halfWidthMeters) ==
    LET lat1 == Number(a.lat)
        lng1 == Number(a.lng)
        lat2 == Number(b.lat)
        lng2 == Number(b.lng)
        x == DegToMeters(lng2 - lng1)
        y == DegToMeters(lat2 - lat1)
        len == Hypot(x, y)
    IN  IF len < MinSegmentLen THEN << >>
        ELSE LET dLat == metersToDegLat(RoundDiv(x * halfWidthMeters, len))
                 dLng == metersToDegLng(RoundDiv(-y * halfWidthMeters, len), lat1)
                 p1 == <<lng1 + dLng, lat1 + dLat>>
                 p2 == <<lng1 - dLng, lat1 - dLat>>
                 p3 == <<lng2 - dLng, lat2 - dLat>>
                 p4 == <<lng2 + dLng, lat2 + dLat>>
             IN  <<<<p1, p2, p4, p3, p1>>>>

\* the polygon [[p1, p2, p3, p4, p1]] as a sequence of one ring; null is << >>
segmentToRectanglePolygon(a, b, halfWidthMeters) ==
    LET lat1 == Number(a.lat)
        lng1 == Number(a.lng)
        lat2 == Number(b.lat)
        lng2 == Number(b.lng)
        bad == lat1 = NaN \/ lng1 = NaN \/ lat2 = NaN \/ lng2 = NaN
        x == IF bad THEN NaN ELSE DegToMeters(lng2 - lng1)
        y == IF bad THEN NaN ELSE DegToMeters(lat2 - lat1)
        len == IF bad THEN NaN ELSE Hypot(x, y)
    IN  IF len = NaN \/ len < MinSegmentLen THEN << >>
        ELSE LET dxM == RoundDiv(-y * halfWidthMeters, len)
                 dyM == RoundDiv(x * halfWidthMeters, len)
                 dLat == metersToDegLat(dyM)
                 dLng == metersToDegLng(dxM, (lat1 + lat2) \div 2)
                 p1 == <<lng1 + dLng, lat1 + dLat>>
                 p2 == <<lng1 - dLng, lat1 - dLat>>
                 p3 == <<lng2 - dLng, lat2 - dLat>>
                 p4 == <<lng2 + dLng, lat2 + dLat>>
             IN  <<<<p1, p2, p3, p4, p1>>>>

RECURSIVE AvoidPolygonsFrom(_, _, _)
AvoidPolygonsFrom(items, halfWidthMeters, k) ==
    IF k > Len(items) THEN << >>
    ELSE LET seg == items[k]
             rest == AvoidPolygonsFrom(items, halfWidthMeters, k + 1)
         IN  IF ~seg.a.present \/ ~seg.b.present THEN rest
             ELSE IF ~NumberIsFinite(seg.a.lat) \/ ~NumberIsFinite(seg.a.lng) THEN rest
             ELSE IF ~NumberIsFinite(seg.b.lat) \/ ~NumberIsFinite(seg.b.lng) THEN rest
             ELSE LET poly == segmentToRectanglePolygon(seg.a, seg.b, halfWidthMeters)
                  IN  IF poly # << >> THEN <<poly>> \o rest ELSE rest

\* buildAvoidPolygons without its per-segment checks: every listed segment
\* yields a polygon, here the ring of its first endpoint's position in the list
buildAvoidPolygonsUnchecked(blockedSegments, halfWidthMeters) ==
    IF ~blockedSegments.isArray THEN << >>
    ELSE [k \in 1..Len(blockedSegments.items) |->
             <<<<<<k, halfWidthMeters>>, <<k, halfWidthMeters>>>>>>]

\* the MultiPolygon's list of polygons; null is << >>
buildAvoidPolygons(blockedSegments, halfWidthMeters) ==
    IF ~blockedSegments.isArray \/ Len(blockedSegments.items) = 0 THEN << >>
    ELSE AvoidPolygonsFrom(blockedSegments.items, halfWidthMeters, 1)

\* ------------------------------------------------------------------------
\* GeoJSON concat helpers
\* ------------------------------------------------------------------------

\* a GeoJSON payload: the coordinates of features[0] (<< >> when there are
\* none) and the provider's summary distance (Null when absent)
GeoJson(coords, dist) == [coords |-> coords, dist |-> dist]

getCoords(geojson) == geojson.coords

makeLineStringGeoJson(coordsLngLat) == GeoJson(coordsLngLat, Null)

\* Math.abs(d) < 1e-6 degrees, d in coordinate units: |d| * 10^6 < UnitsPerDeg
WithinJoinTolerance(d) == Abs(d) <= (UnitsPerDeg - 1) \div 1000000

\* concatRoutesGeoJson comparing the longitudes only
concatRoutesGeoJsonLngOnly(g1, g2) ==
    LET c1 == getCoords(g1)
        c2 == getCoords(g2)
    IN  IF Len(c1) = 0 THEN g2
        ELSE IF Len(c2) = 0 THEN g1
        ELSE LET last1 == c1[Len(c1)]
                 first2 == c2[1]
                 same == WithinJoinTolerance(last1[1] - first2[1])
             IN  makeLineStringGeoJson(IF same THEN c1 \o Tail(c2) ELSE c1 \o c2)

concatRoutesGeoJson(g1, g2) ==
    LET c1 == getCoords(g1)
        c2 == getCoords(g2)
    IN  IF Len(c1) = 0 THEN g2
        ELSE IF Len(c2) = 0 THEN g1
        ELSE LET last1 == c1[Len(c1)]
                 first2 == c2[1]
                 same == WithinJoinTolerance(last1[1] - first2[1])
                         /\ WithinJoinTolerance(last1[2] - first2[2])
             IN  makeLineStringGeoJson(IF same THEN c1 \o Tail(c2) ELSE c1 \o c2)

\* ------------------------------------------------------------------------
\* Filler / anchor helpers
\* ------------------------------------------------------------------------

NoAnchor == [found |-> FALSE, lat |-> 0, lng |-> 0, d |-> 0]

RECURSIVE FarthestFrom(_, _, _, _, _, _)
FarthestFrom(c, startLat, startLng, k, best, bestD) ==
    IF k > Len(c) THEN best
    ELSE LET d == haversineM(startLat, startLng, Lat(c[k]), Lng(c[k]))
         IN  IF JsLt(bestD, d)
             THEN FarthestFrom(c, startLat, startLng, k + 1,
                     [found |-> TRUE, lat |-> Lat(c[k]), lng |-> Lng(c[k]), d |-> d], d)
             ELSE FarthestFrom(c, startLat, startLng, k + 1, best, bestD)

farthestPointFromStart(coordsLngLat, startLat, startLng) ==
    IF Len(coordsLngLat) < 2 THEN NoAnchor
    ELSE FarthestFrom(coordsLngLat, startLat, startLng, 1, NoAnchor, -1)

\* ------------------------------------------------------------------------
\* Reroute helpers
\* ------------------------------------------------------------------------

geojsonToCoordsLngLat(geojson) == geojson.coords

sampleCoordsEvenly(coordsLngLat, n) ==
    IF Len(coordsLngLat) = 0 THEN << >>
    ELSE IF n <= 0 THEN << >>
    ELSE IF Len(coordsLngLat) <= n THEN coordsLngLat
    ELSE LET last == Len(coordsLngLat) - 1
         IN  [i \in 1..n |-> At(coordsLngLat, RoundDiv((i - 1) * last, n - 1))]

\* ------------------------------------------------------------------------
\* Bounds of the model and the requests it draws
\* ------------------------------------------------------------------------

\* seeds are drawn from 0..MaxSeed (the code draws from 0..999999)
MaxSeed == 0

\* a request carries at most this many waypoints
MaxWaypoints == 2

\* a reroute request carries at most this many blocked segments
MaxSegments == 2

\* the start <<lng, lat>> used by well-formed requests, in coordinate units
Home == <<1200, 1000>>

HomeLat == Lat(Home)

HomeLng == Lng(Home)

\* what a required field may hold when it is not a usable number
IllFormed == {Undef, Num(0), Str}

\* lat, lng and distanceKm of a request: well-formed (2, 4 or 12 km from
\* Home), or one field ill-formed and the others as for 2 km from Home
StartFields ==
    {<<Num(HomeLat), Num(HomeLng), Num(km)>> : km \in {2, 4, 12}}
        \cup {<<x, Num(HomeLng), Num(2)>> : x \in IllFormed}
        \cup {<<Num(HomeLat), x, Num(2)>> : x \in IllFormed}
        \cup {<<Num(HomeLat), Num(HomeLng), x>> : x \in IllFormed}

\* the lists of 1..n items that run through the sequence kinds cyclically,
\* one list per starting item and length
Cycles(kinds, n) ==
    {[i \in 1..k |-> kinds[((first + i - 2) % Len(kinds)) + 1]] :
        first \in 1..Len(kinds), k \in 1..n}

\* waypoints as the caller sends them: 1200 m east of the start, 40 m north
\* of it, and one whose latitude is a string
WaypointInputs ==
    << [lat |-> Num(HomeLat), lng |-> Num(HomeLng + 600)],
       [lat |-> Num(HomeLat + 20), lng |-> Num(HomeLng)],
       [lat |-> Str, lng |-> Num(HomeLng + 600)] >>

WaypointLists ==
    {NoArray} \cup {Array(w) : w \in Cycles(WaypointInputs, MaxWaypoints)}

\* blocked segments as the caller sends them: 100 m long, 2 m long, of
\* length zero, with an endpoint missing, and with a string for a coordinate
SegmentInputs ==
    << [a |-> Point(Num(HomeLat), Num(HomeLng + 100)),
        b |-> Point(Num(HomeLat), Num(HomeLng + 150))],
       [a |-> Point(Num(HomeLat + 300), Num(HomeLng)),
        b |-> Point(Num(HomeLat + 301), Num(HomeLng))],
       [a |-> Point(Num(HomeLat + 5), Num(HomeLng + 5)),
        b |-> Point(Num(HomeLat + 5), Num(HomeLng + 5))],
       [a |-> Point(Num(HomeLat), Num(HomeLng + 100)), b |-> NoPoint],
       [a |-> Point(Str, Num(HomeLng + 100)),
        b |-> Point(Num(HomeLat), Num(HomeLng + 150))] >>

SegmentLists ==
    {NoArray, Array(<< >>)}
        \cup {Array(g) : g \in Cycles(SegmentInputs, MaxSegments)}

\* ------------------------------------------------------------------------
\* The routing provider (openrouteservice), as the handlers see it
\* ------------------------------------------------------------------------

Shift(p, dLng, dLat) == <<Lng(p) + dLng, Lat(p) + dLat>>

\* a closed square of side s units from p, n points per side
RECURSIVE Side(_, _, _, _, _)
Side(p, dLng, dLat, n, k) ==
    IF k > n THEN << >>
    ELSE <<Shift(p, k * dLng, k * dLat)>> \o Side(p, dLng, dLat, n, k + 1)

SquareLoop(p, s, n) ==
    LET e == s \div n
    IN  <<p>> \o Side(p, e, 0, n, 1)
            \o Side(Shift(p, n * e, 0), 0, e, n, 1)
            \o Side(Shift(p, n * e, n * e), -e, 0, n, 1)
            \o Side(Shift(p, 0, n * e), 0, -e, n, 1)

\* 80 m out and straight back in 40 steps of 4 m
OutAndBack(p) ==
    <<p>> \o Side(p, 0, 2, 20, 1) \o Side(Shift(p, 0, 40), 0, -2, 20, 1)

NoGeoJson == GeoJson(<< >>, Null)

\* the answers to a round-trip request for length len from p: nothing, a
\* single point, a 5-point loop of the requested length (distance absent,
\* reported as 0, as 1.03 len and as 1.03 len + 1), a 5-point loop of
\* 1.5 len, and a 41-point out-and-back spur reported as len
RoundTripPayloads(p, len) ==
    LET loop == SquareLoop(p, len \div 8, 1)
    IN  { NoGeoJson,
          GeoJson(<<p>>, len),
          GeoJson(loop, Null),
          GeoJson(loop, 0),
          GeoJson(loop, len + (3 * len) \div 100),
          GeoJson(loop, len + (3 * len) \div 100 + 1),
          GeoJson(SquareLoop(p, (3 * len) \div 16, 1), Null),
          GeoJson(OutAndBack(p), len) }

\* the answers to a directions request: nothing, the straight path through
\* the requested coordinates, and that path with a 6.2 km excursion north
\* after its first point
DirectionsPayloads(coordinates) ==
    LET first == coordinates[1]
        far == Shift(first, 0, 3100)
    IN  { NoGeoJson,
          GeoJson(coordinates, Null),
          GeoJson(<<first, far, first>> \o Tail(coordinates), 5000) }

\* JSON.stringify writes NaN as null
HasNull(q) ==
    \/ \E k \in 1..Len(q.coordinates) :
          Lng(q.coordinates[k]) = NaN \/ Lat(q.coordinates[k]) = NaN
    \/ q.op = "round_trip" /\ q.length = NaN

\* HTTP statuses of a refused request: throttled, or any other failure
FailureStatuses == {429, 500}

Failure(status) == [status |-> status, geojson |-> NoGeoJson]

Success(geojson) == [status |-> 200, geojson |-> geojson]

\* what the provider may answer to request q; a body with a null coordinate
\* or length is refused
Replies(q) ==
    {Failure(st) : st \in FailureStatuses} \cup
    IF HasNull(q) THEN {}
    ELSE IF q.op = "round_trip"
         THEN {Success(g) : g \in RoundTripPayloads(q.coordinates[1], q.length)}
         ELSE {Success(g) : g \in DirectionsPayloads(q.coordinates)}

\* ------------------------------------------------------------------------
\* State
\* ------------------------------------------------------------------------

VARIABLES
    req,      \* the request: its endpoint and its JSON body
    pc,       \* where the handler is: "received", awaiting the provider in
              \* "roundtrip", "directions", "filler" or "reroute", or "done"
    a,        \* the attempt index of the running search loop (a, i)
    best,     \* the best candidate of the running search loop
    result,   \* what generateLoopGeoJson returned to the handler
    ended,    \* how generateLoopGeoJson ended: "early", "exhausted", "threw"
    seen,     \* the scores of the candidates the running search validated
    wps,      \* the handler's waypoint list
    geojson,  \* the handler's route
    distM,    \* the handler's route length
    fillerM,  \* the length asked of the filler search
    anchor,   \* where the filler search starts: [lat, lng]
    out,      \* the provider request in flight
    nReq,     \* provider requests issued so far, per operation
    res,      \* the HTTP response
    client    \* the state of the browser client (App.jsx)

\* the variables of the server
serverVars == <<req, pc, a, best, result, ended, seen, wps, geojson, distM,
                fillerM, anchor, out, nReq, res>>

vars == <<serverVars, client>>

\* routeGeo of the client: null, or a GeoJSON object
NoRoute == [isNull |-> TRUE, geojson |-> [coords |-> << >>, dist |-> Null]]

\* pos of the client: null, or {lat, lng}
NoPos == [isNull |-> TRUE, lat |-> 0, lng |-> 0]

\* the useState initial values of App, no request in flight, no alert shown
InitialClient ==
    [pos |-> NoPos, routeGeo |-> NoRoute, loading |-> FALSE,
     waypointMode |-> FALSE, waypoints |-> << >>, avoidMode |-> FALSE,
     blockedSegments |-> {}, pending |-> "none", body |-> {}, alert |-> ""]

\* the search budget of generateLoopGeoJson
attempts == 10

\* the search budget /api/loop gives bestFillerRoundTrip
fillerAttempts == 14

NoCandidate ==
    [valid |-> FALSE, geojson |-> NoGeoJson, distM |-> Null, targetM |-> Null,
     overlap |-> RatioNull, distError |-> RatioNull, attemptsTried |-> 0,
     score |-> RatioNull]

NoRequest ==
    [op |-> "none", coordinates |-> << >>, length |-> 0, points |-> 0,
     seed |-> 0, avoid |-> << >>]

NoResponse ==
    [status |-> 0, error |-> "", targetM |-> Null, distM |-> Null,
     overlap |-> RatioNull, distError |-> RatioNull, attemptsTried |-> 0,
     geojson |-> NoGeoJson]

\* /api/loop requests; avoidSpurs is only varied where it is read, in the
\* requests that send no waypoints
LoopRequests ==
    {[kind |-> "loop", lat |-> f[1], lng |-> f[2], distanceKm |-> f[3],
      avoidSpurs |-> sw[1], waypoints |-> sw[2], routeGeo |-> NoGeoJson,
      hasRouteGeo |-> FALSE, blockedSegments |-> NoArray] :
        f \in StartFields,
        sw \in {x \in BOOLEAN \X WaypointLists : x[1] \/ x[2] = NoArray}}

\* the route a reroute request sends back: a 41-point and a 5-point loop
PriorRoutes ==
    {GeoJson(SquareLoop(Home, 250, 10), 2000), GeoJson(SquareLoop(Home, 250, 1), Null)}

RerouteRequests ==
    {[kind |-> "reroute", lat |-> f[1], lng |-> f[2], distanceKm |-> f[3],
      avoidSpurs |-> TRUE, waypoints |-> w, routeGeo |-> r[2],
      hasRouteGeo |-> r[1], blockedSegments |-> b] :
        f \in StartFields,
        w \in {NoArray, Array(SubSeq(WaypointInputs, 1, 2))},
        r \in {<<FALSE, NoGeoJson>>} \cup {<<TRUE, g>> : g \in PriorRoutes},
        b \in SegmentLists}

Init ==
    /\ req \in LoopRequests \cup RerouteRequests
    /\ pc = "received"
    /\ a = 0
    /\ best = NoCandidate
    /\ result = NoCandidate
    /\ ended = ""
    /\ seen = {}
    /\ wps = << >>
    /\ geojson = NoGeoJson
    /\ distM = Null
    /\ fillerM = 0
    /\ anchor = [lat |-> 0, lng |-> 0]
    /\ out = NoRequest
    /\ nReq = [round_trip |-> 0, directions |-> 0]
    /\ res = NoResponse
    /\ client = InitialClient

\* ------------------------------------------------------------------------
\* ORS calls
\* ------------------------------------------------------------------------

\* orsRoundTripGeoJson that posts nothing
RoundTripRequestUnsent(startLat, startLng, lengthMeters, points, seed) ==
    NoRequest

\* the body orsRoundTripGeoJson posts
RoundTripRequest(startLat, startLng, lengthMeters, points, seed) ==
    [op |-> "round_trip", coordinates |-> <<<<startLng, startLat>>>>,
     length |-> lengthMeters, points |-> points, seed |-> seed, avoid |-> << >>]

\* the body orsDirectionsGeoJson posts
DirectionsRequest(coordinates, options) ==
    [op |-> "directions", coordinates |-> coordinates, length |-> 0,
     points |-> 0, seed |-> 0, avoid |-> options]

\* every attempt asks for 6 points
PointsOfSix(k) == 6

\* points = a % 2 === 0 ? 6 : 8
PointsOf(k) == IF k % 2 = 0 THEN 6 ELSE 8

\* the handlers' catch: status err.status, error "Server error"
ServerError(status) == [NoResponse EXCEPT !.status = status, !.error = "Server error"]

\* ------------------------------------------------------------------------
\* Loop generation (round-trip + retry)
\* ------------------------------------------------------------------------

\* a candidate is accepted at once when its distance error is <= 0.03
EarlyExitError == <<3, 100>>

\* the spur threshold both searches pass to hasShortOutAndBackSpur
SpurDetourM == 160

\* the grid both searches and the handlers pass to overlapRatio
GridM == 20

\* Math.abs(distM - targetM) / targetM
DistError(dist, targetM) ==
    IF targetM = NaN THEN RatioNaN ELSE <<Abs(dist - targetM), targetM>>

\* LoopCandidate numbering the attempts from 0: attemptsTried = a
LoopCandidateZeroBased(g, targetM, avoidSpurs, k) ==
    LET coords == g.coords
        distFromOrs == g.dist
        dist == IF distFromOrs # Null THEN distFromOrs ELSE lineDistanceM(coords)
    IN  IF Len(coords) < 2 THEN NoCandidate
        ELSE IF dist = Null \/ dist = NaN \/ dist <= 0 THEN NoCandidate
        ELSE IF avoidSpurs /\ hasShortOutAndBackSpur(coords, SpurDetourM)
        THEN NoCandidate
        ELSE [valid |-> TRUE, geojson |-> g, distM |-> dist, targetM |-> targetM,
              overlap |-> overlapRatio(coords, GridM),
              distError |-> DistError(dist, targetM),
              attemptsTried |-> k,
              score |-> DistError(dist, targetM)]

\* LoopCandidate without the spur test: a flagged geometry is a candidate
LoopCandidateSpursKept(g, targetM, avoidSpurs, k) ==
    LET coords == g.coords
        distFromOrs == g.dist
        dist == IF distFromOrs # Null THEN distFromOrs ELSE lineDistanceM(coords)
    IN  IF Len(coords) < 2 THEN NoCandidate
        ELSE IF dist = Null \/ dist = NaN \/ dist <= 0 THEN NoCandidate
        ELSE [valid |-> TRUE, geojson |-> g, distM |-> dist, targetM |-> targetM,
              overlap |-> overlapRatio(coords, GridM),
              distError |-> DistError(dist, targetM),
              attemptsTried |-> k + 1,
              score |-> DistError(dist, targetM)]

\* generateLoopGeoJson, from the provider's payload to the candidate of
\* attempt k; NoCandidate when the attempt is skipped
LoopCandidate(g, targetM, avoidSpurs, k) ==
    LET coords == g.coords
        distFromOrs == g.dist
        dist == IF distFromOrs # Null THEN distFromOrs ELSE lineDistanceM(coords)
    IN  IF Len(coords) < 2 THEN NoCandidate
        ELSE IF dist = Null \/ dist = NaN \/ dist <= 0 THEN NoCandidate
        ELSE IF avoidSpurs /\ hasShortOutAndBackSpur(coords, SpurDetourM)
        THEN NoCandidate
        ELSE [valid |-> TRUE, geojson |-> g, distM |-> dist, targetM |-> targetM,
              overlap |-> overlapRatio(coords, GridM),
              distError |-> DistError(dist, targetM),
              attemptsTried |-> k + 1,
              score |-> DistError(dist, targetM)]

\* BetterOf with <= for <: a later candidate of equal score replaces best
BetterOfLatest(cur, candidate) ==
    IF ~cur.valid \/ RatioLe(candidate.score, cur.score) THEN candidate ELSE cur

\* if (!best || candidate.score < best.score) best = candidate
BetterOf(cur, candidate) ==
    IF ~cur.valid \/ RatioLt(candidate.score, cur.score) THEN candidate ELSE cur

\* EarlyExit with a strict comparison: an error of exactly 0.03 does not
\* end the search
EarlyExitStrict(candidate) == RatioLt(candidate.distError, EarlyExitError)

\* if (distError <= 0.03) return best
EarlyExit(candidate) == RatioLe(candidate.distError, EarlyExitError)

\* the locals of the /api/loop and /api/reroute handlers
startLat == Number(req.lat)

startLng == Number(req.lng)

targetM == JsMul(Number(req.distanceKm), 1000)

\* LoopResponse without the null check: the result's fields are sent as
\* they are
LoopResponseUnchecked(r) ==
    [status |-> 200, error |-> "", targetM |-> r.targetM, distM |-> r.distM,
     overlap |-> r.overlap, distError |-> r.distError,
     attemptsTried |-> r.attemptsTried, geojson |-> r.geojson]

\* res.json of the no-waypoint pipeline: 502 when the search returned null
LoopResponse(r) ==
    IF ~r.valid
    THEN [NoResponse EXCEPT !.status = 502, !.error = "Failed to generate route"]
    ELSE [status |-> 200, error |-> "", targetM |-> r.targetM, distM |-> r.distM,
          overlap |-> r.overlap, distError |-> r.distError,
          attemptsTried |-> r.attemptsTried, geojson |-> r.geojson]

\* generateLoopGeoJson resumes with the provider's reply to attempt a
RoundTripReply ==
    /\ pc = "roundtrip"
    /\ UNCHANGED client
    /\ \E reply \in Replies(out) :
        IF reply.status # 200
        THEN \* orsRoundTripGeoJson throws; the handler's catch answers
             /\ pc' = "done"
             /\ ended' = "threw"
             /\ res' = ServerError(reply.status)
             /\ out' = NoRequest
             /\ UNCHANGED <<a, best, result, seen, nReq>>
        ELSE LET candidate == LoopCandidate(reply.geojson, targetM,
                                            req.avoidSpurs, a)
                 newBest == IF candidate.valid THEN BetterOf(best, candidate)
                            ELSE best
             IN  /\ best' = newBest
                 /\ seen' = IF candidate.valid THEN seen \cup {candidate.score}
                            ELSE seen
                 /\ IF candidate.valid /\ EarlyExit(candidate)
                    THEN /\ result' = newBest
                         /\ ended' = "early"
                         /\ res' = LoopResponse(newBest)
                         /\ pc' = "done"
                         /\ out' = NoRequest
                         /\ UNCHANGED <<a, nReq>>
                    ELSE IF a + 1 < attempts
                    THEN /\ a' = a + 1
                         /\ \E seed \in 0..MaxSeed :
                               out' = RoundTripRequest(startLat, startLng, targetM,
                                                       PointsOf(a + 1), seed)
                         /\ nReq' = [nReq EXCEPT !.round_trip = @ + 1]
                         /\ UNCHANGED <<pc, result, ended, res>>
                    ELSE /\ a' = a + 1
                         /\ result' = newBest
                         /\ ended' = "exhausted"
                         /\ res' = LoopResponse(newBest)
                         /\ pc' = "done"
                         /\ out' = NoRequest
                         /\ UNCHANGED nReq
    /\ UNCHANGED <<req, wps, geojson, distM, fillerM, anchor>>

\* FillerCandidate with the distance error at full weight:
\* score = ov + distErr
FillerCandidateUnweighted(g, lengthMeters) ==
    LET coords == getCoords(g)
        dist == lineDistanceM(coords)
    IN  IF Len(coords) < 2 THEN NoCandidate
        ELSE IF dist = Null \/ dist = NaN \/ dist = 0 THEN NoCandidate
        ELSE IF hasShortOutAndBackSpur(coords, SpurDetourM) THEN NoCandidate
        ELSE [NoCandidate EXCEPT
                !.valid = TRUE,
                !.geojson = g,
                !.score = RatioAdd(Reduce(overlapRatio(coords, GridM)),
                                   Reduce(<<Abs(dist - lengthMeters),
                                            lengthMeters>>))]

\* bestFillerRoundTrip, from the provider's payload to the candidate of one
\* attempt: score = ov * 1.0 + distErr * 0.2
FillerCandidate(g, lengthMeters) ==
    LET coords == getCoords(g)
        dist == lineDistanceM(coords)
    IN  IF Len(coords) < 2 THEN NoCandidate
        ELSE IF dist = Null \/ dist = NaN \/ dist = 0 THEN NoCandidate
        ELSE IF hasShortOutAndBackSpur(coords, SpurDetourM) THEN NoCandidate
        ELSE [NoCandidate EXCEPT
                !.valid = TRUE,
                !.geojson = g,
                !.score = RatioAdd(Reduce(overlapRatio(coords, GridM)),
                                   Reduce(<<Abs(dist - lengthMeters),
                                            5 * lengthMeters>>))]

\* Final metrics of the waypoint pipeline and its res.json
FinalResponse(g, dist) ==
    [status |-> 200, error |-> "", targetM |-> targetM, distM |-> dist,
     overlap |-> overlapRatio(getCoords(g), GridM),
     distError |-> IF dist = Null \/ dist = NaN \/ dist = 0 THEN RatioNull
                   ELSE DistError(dist, targetM),
     attemptsTried |-> 1, geojson |-> g]

\* bestFillerRoundTrip resumes with the provider's reply to attempt a; after
\* the last attempt the handler splices the filler in and answers
FillerReply ==
    /\ pc = "filler"
    /\ UNCHANGED client
    /\ \E reply \in Replies(out) :
        IF reply.status # 200
        THEN /\ pc' = "done"
             /\ res' = ServerError(reply.status)
             /\ out' = NoRequest
             /\ UNCHANGED <<a, best, seen, geojson, distM, nReq>>
        ELSE LET cand == FillerCandidate(reply.geojson, fillerM)
                 newBest == IF cand.valid THEN BetterOf(best, cand) ELSE best
             IN  /\ best' = newBest
                 /\ seen' = IF cand.valid THEN seen \cup {cand.score} ELSE seen
                 /\ a' = a + 1
                 /\ IF a + 1 < fillerAttempts
                    THEN /\ \E seed \in 0..MaxSeed :
                               out' = RoundTripRequest(anchor.lat, anchor.lng, fillerM,
                                                       PointsOf(a + 1), seed)
                         /\ nReq' = [nReq EXCEPT !.round_trip = @ + 1]
                         /\ UNCHANGED <<pc, geojson, distM, res>>
                    ELSE LET merged == IF newBest.valid
                                       THEN concatRoutesGeoJson(geojson, newBest.geojson)
                                       ELSE geojson
                             dist == IF newBest.valid
                                     THEN lineDistanceM(getCoords(merged))
                                     ELSE distM
                         IN  /\ geojson' = merged
                             /\ distM' = dist
                             /\ res' = FinalResponse(merged, dist)
                             /\ pc' = "done"
                             /\ out' = NoRequest
                             /\ UNCHANGED nReq
    /\ UNCHANGED <<req, result, ended, wps, fillerM, anchor>>

\* ------------------------------------------------------------------------
\* POST /api/loop
\* ------------------------------------------------------------------------

\* targetM * 0.08
DetourShare(t) == IF t = NaN THEN NaN ELSE (t * 8) \div 100

\* Math.max(250, Math.min(900, targetM * 0.08))
DetourOffset(t) == MathMax(250, MathMin(900, DetourShare(t)))

\* the filler is anchored at the farthest point only from this distance on
minAnchorDist == 600

\* the filler is never asked for less than this
MinFillerM == 1600

\* AnchorOf without the 600 m threshold
AnchorOfFarthest(coordsLngLat, waypoints) ==
    LET far == farthestPointFromStart(coordsLngLat, startLat, startLng)
    IN  IF far.found THEN [lat |-> far.lat, lng |-> far.lng]
        ELSE [lat |-> startLat, lng |-> startLng]

\* the anchor of the filler search: the farthest point of the base path, the
\* first waypoint, or the start
AnchorOf(coordsLngLat, waypoints) ==
    LET far == farthestPointFromStart(coordsLngLat, startLat, startLng)
    IN  IF far.found /\ far.d >= minAnchorDist THEN [lat |-> far.lat, lng |-> far.lng]
        ELSE IF Len(waypoints) >= 1
        THEN [lat |-> waypoints[1].lat, lng |-> waypoints[1].lng]
        ELSE [lat |-> startLat, lng |-> startLng]

\* the handler up to its first await: the check of the body, the waypoints,
\* and the first provider request
PostLoop ==
    /\ pc = "received"
    /\ UNCHANGED client
    /\ req.kind = "loop"
    /\ IF ~Truthy(req.lat) \/ ~Truthy(req.lng) \/ ~Truthy(req.distanceKm)
       THEN /\ res' = [NoResponse EXCEPT !.status = 400,
                                         !.error = "Missing lat/lng/distanceKm"]
            /\ pc' = "done"
            /\ UNCHANGED <<wps, out, nReq>>
       ELSE LET norm == normalizeWaypoints(req.waypoints)
            IN  IF Len(norm) = 0
                THEN /\ \E seed \in 0..MaxSeed :
                          out' = RoundTripRequest(startLat, startLng, targetM,
                                                  PointsOf(0), seed)
                     /\ nReq' = [nReq EXCEPT !.round_trip = @ + 1]
                     /\ pc' = "roundtrip"
                     /\ wps' = norm
                     /\ UNCHANGED res
                ELSE /\ \E side \in {-1, 1} :
                          wps' = IF Len(norm) = 1
                                 THEN <<norm[1],
                                        makeDetourWaypoint(
                                            [lat |-> startLat, lng |-> startLng],
                                            norm[1], DetourOffset(targetM), side)>>
                                 ELSE norm
                     /\ out' = DirectionsRequest(
                                   buildDirectionsCoordinates(startLat, startLng, wps'),
                                   << >>)
                     /\ nReq' = [nReq EXCEPT !.directions = @ + 1]
                     /\ pc' = "directions"
                     /\ UNCHANGED res
    /\ UNCHANGED <<req, a, best, result, ended, seen, geojson, distM, fillerM, anchor>>

\* the handler resumes with the provider's reply to the directions request
DirectionsReply ==
    /\ pc = "directions"
    /\ UNCHANGED client
    /\ \E reply \in Replies(out) :
        IF reply.status # 200
        THEN /\ pc' = "done"
             /\ res' = ServerError(reply.status)
             /\ out' = NoRequest
             /\ UNCHANGED <<geojson, distM, fillerM, anchor, nReq>>
        ELSE LET coordsLngLat == getCoords(reply.geojson)
                 dist == lineDistanceM(coordsLngLat)
             IN  /\ geojson' = reply.geojson
                 /\ distM' = dist
                 /\ IF dist # Null /\ JsLt(dist, targetM)
                    THEN /\ fillerM' = Max(MinFillerM, targetM - dist)
                         /\ anchor' = AnchorOf(coordsLngLat, wps)
                         /\ \E seed \in 0..MaxSeed :
                               out' = RoundTripRequest(anchor'.lat, anchor'.lng,
                                                       fillerM', PointsOf(0), seed)
                         /\ nReq' = [nReq EXCEPT !.round_trip = @ + 1]
                         /\ pc' = "filler"
                         /\ UNCHANGED res
                    ELSE /\ res' = FinalResponse(reply.geojson, dist)
                         /\ pc' = "done"
                         /\ out' = NoRequest
                         /\ UNCHANGED <<fillerM, anchor, nReq>>
    /\ a' = 0
    /\ best' = NoCandidate
    /\ UNCHANGED <<req, result, ended, seen, wps>>

\* ------------------------------------------------------------------------
\* POST /api/reroute
\* ------------------------------------------------------------------------

\* the rectangles are this many metres wide on each side of a segment
halfWidthMeters == 18

\* the number of shape points sampled from the prior route
shapePoints == 7

\* Interior that drops nothing
InteriorAll(sampled) == sampled

\* sampled[1 .. length - 2]: the sample without its first and last point
Interior(sampled) ==
    IF Len(sampled) <= 2 THEN << >> ELSE SubSeq(sampled, 2, Len(sampled) - 1)

\* start -> sampled middle points -> user waypoints -> start
RerouteCoordinates(sLat, sLng, routeGeo, waypoints) ==
    <<<<sLng, sLat>>>>
        \o Interior(sampleCoordsEvenly(geojsonToCoordsLngLat(routeGeo), shapePoints))
        \o WaypointCoords(waypoints, 1)
        \o <<<<sLng, sLat>>>>

\* the handler up to its await: the check of the body, the avoid polygons,
\* and the directions request
PostReroute ==
    /\ pc = "received"
    /\ UNCHANGED client
    /\ req.kind = "reroute"
    /\ IF ~Truthy(req.lat) \/ ~Truthy(req.lng) \/ ~Truthy(req.distanceKm)
          \/ ~req.hasRouteGeo
       THEN /\ res' = [NoResponse EXCEPT !.status = 400,
                                         !.error = "Missing lat/lng/distanceKm/routeGeo"]
            /\ pc' = "done"
            /\ UNCHANGED <<wps, out, nReq>>
       ELSE LET avoidPolys == buildAvoidPolygons(req.blockedSegments, halfWidthMeters)
            IN  IF avoidPolys = << >>
                THEN /\ res' = [NoResponse EXCEPT
                                   !.status = 400,
                                   !.error = "No valid blockedSegments received"]
                     /\ pc' = "done"
                     /\ UNCHANGED <<wps, out, nReq>>
                ELSE /\ wps' = normalizeWaypoints(req.waypoints)
                     /\ out' = DirectionsRequest(
                                   RerouteCoordinates(startLat, startLng,
                                                      req.routeGeo, wps'),
                                   avoidPolys)
                     /\ nReq' = [nReq EXCEPT !.directions = @ + 1]
                     /\ pc' = "reroute"
                     /\ UNCHANGED res
    /\ UNCHANGED <<req, a, best, result, ended, seen, geojson, distM, fillerM, anchor>>

\* the handler resumes with the provider's reply and answers
RerouteReply ==
    /\ pc = "reroute"
    /\ UNCHANGED client
    /\ \E reply \in Replies(out) :
        IF reply.status # 200
        THEN /\ res' = ServerError(reply.status)
             /\ UNCHANGED <<geojson, distM>>
        ELSE LET coordsLngLat == reply.geojson.coords
                 distFromOrs == reply.geojson.dist
                 dist == IF distFromOrs # Null THEN distFromOrs
                         ELSE lineDistanceM(coordsLngLat)
             IN  /\ geojson' = reply.geojson
                 /\ distM' = dist
                 /\ res' = [NoResponse EXCEPT
                              !.status = 200,
                              !.distM = dist,
                              !.overlap = overlapRatio(coordsLngLat, GridM),
                              !.attemptsTried = 1,
                              !.geojson = reply.geojson]
    /\ pc' = "done"
    /\ out' = NoRequest
    /\ UNCHANGED <<req, a, best, result, ended, seen, wps, fillerM, anchor, nReq>>

\* ------------------------------------------------------------------------
\* The specification
\* ------------------------------------------------------------------------

Next ==
    \/ PostLoop
    \/ RoundTripReply
    \/ DirectionsReply
    \/ FillerReply
    \/ PostReroute
    \/ RerouteReply

Spec == Init /\ [][Next]_vars

\* ------------------------------------------------------------------------
\* Properties
\* ------------------------------------------------------------------------

\* the request's start as a coordinate
StartCoord == <<startLng, startLat>>

\* the handler took the no-waypoint pipeline: generateLoopGeoJson was called
SearchRan == req.kind = "loop" /\ nReq.round_trip > 0 /\ nReq.directions = 0

\* the handler took the waypoint pipeline and called bestFillerRoundTrip
FillerRan == req.kind = "loop" /\ nReq.round_trip > 0 /\ nReq.directions = 1

\* a score within the early-exit error
Close(score) == RatioLe(score, EarlyExitError)

\* the caller's waypoints that have finite coordinates, in the order sent
SentWaypoints ==
    IF req.waypoints.isArray
    THEN SelectSeq(req.waypoints.items,
                   LAMBDA w : w.lat.t = "num" /\ w.lng.t = "num")
    ELSE << >>

\* a blocked segment that can be converted: both endpoints present, finite,
\* and apart (distinct positions are at least 2 m apart)
Convertible(seg) ==
    /\ seg.a.present /\ seg.b.present
    /\ seg.a.lat.t = "num" /\ seg.a.lng.t = "num"
    /\ seg.b.lat.t = "num" /\ seg.b.lng.t = "num"
    /\ <<seg.a.lat.v, seg.a.lng.v>> # <<seg.b.lat.v, seg.b.lng.v>>

NoConvertibleSegment ==
    \/ ~req.blockedSegments.isArray
    \/ \A k \in 1..Len(req.blockedSegments.items) :
          ~Convertible(req.blockedSegments.items[k])

\* the required fields pass the handlers' check of the body
RequiredFieldsPass ==
    /\ Truthy(req.lat) /\ Truthy(req.lng) /\ Truthy(req.distanceKm)
    /\ req.kind = "reroute" => req.hasRouteGeo

\* C1: in generateLoopGeoJson the search goes on only while no validated
\* candidate had a distance error <= 0.03; when one has, the search ends at
\* that attempt, returns that attempt's candidate (attemptsTried is the
\* number of round-trip requests made), the handler answers with it, and no
\* request is left in flight.
C1_EarlyExit ==
    SearchRan =>
        /\ ended # "early" => \A s \in seen : ~Close(s)
        /\ ended = "early" =>
              /\ pc = "done" /\ out = NoRequest
              /\ result.valid /\ Close(result.distError)
              /\ result.attemptsTried = nReq.round_trip
              /\ \A s \in seen \ {result.score} : ~Close(s)
              /\ res.status = 200
              /\ res.geojson = result.geojson
              /\ res.attemptsTried = nReq.round_trip

\* the provider's first path has exactly the target length and no spur: one
\* request, attemptsTried = 1
C1_Witness ==
    /\ SearchRan /\ ended = "early"
    /\ nReq.round_trip = 1
    /\ res.attemptsTried = 1
    /\ res.distM = targetM
    /\ res.distError = <<0, targetM>>

\* C2: a round-trip search never hands the provider's 429 to the caller, and
\* a search that was throttled (or otherwise validated nothing) ends only
\* after all 10 requests, returning null, which the handler answers with 502.
C2_ThrottledSearchExhaustsBudget ==
    SearchRan =>
        /\ res.status # 429
        /\ pc = "done" /\ seen = {} /\ res.status # 500 =>
              /\ nReq.round_trip = attempts
              /\ ~result.valid
              /\ res.status = 502

\* C3: a provider failure other than throttling in a search loop (round-trip
\* or filler) does not reach the caller of a loop request, and once the
\* filler search has run the response carries a route.
C3_SearchAbsorbsProviderFailure ==
    req.kind = "loop" /\ nReq.round_trip > 0 =>
        /\ res.status # 500
        /\ FillerRan /\ pc = "done" /\ res.status # 429 =>
              res.status = 200 /\ Len(res.geojson.coords) >= 2

\* C4: when generateLoopGeoJson ends without an early exit it returns null
\* exactly when no attempt validated a candidate, and otherwise a validated
\* candidate whose score no validated candidate undercuts; during the search
\* best is replaced only by a strictly lower score, so the earliest of the
\* lowest-score candidates is the one kept.
C4_LowestScoreEarliest ==
    /\ [](SearchRan /\ ended = "exhausted" =>
            /\ nReq.round_trip = attempts
            /\ result.valid <=> seen # {}
            /\ result.valid =>
                  /\ result.score \in seen
                  /\ \A s \in seen : ~RatioLt(s, result.score))
    /\ [][pc = "roundtrip" /\ best' # best =>
            /\ best'.valid
            /\ best'.attemptsTried = a + 1
            /\ ~best.valid \/ RatioLt(best'.score, best.score)]_vars

\* the budget was spent on two candidates of different score and the one
\* returned is not the last attempt's
C4_Witness ==
    /\ SearchRan /\ ended = "exhausted"
    /\ Cardinality(seen) = 2
    /\ result.valid
    /\ result.attemptsTried \in 2..(attempts - 1)

\* C5: the path of every successful /api/loop response starts and ends at
\* the caller's start point.
C5_ReturnedRouteIsLoop ==
    req.kind = "loop" /\ pc = "done" /\ res.status = 200
        /\ Len(res.geojson.coords) > 0 =>
            /\ res.geojson.coords[1] = StartCoord
            /\ res.geojson.coords[Len(res.geojson.coords)] = StartCoord

\* C6: once generateLoopGeoJson has returned, the handler answers 502
\* "Failed to generate route" without a route if it returned null and 200
\* with the candidate's route otherwise; a request without valid waypoints is
\* answered 200 only with a returned candidate.
C6_NoRouteFound ==
    /\ SearchRan /\ ended \in {"early", "exhausted"} =>
          /\ pc = "done"
          /\ IF result.valid
             THEN res.status = 200 /\ res.geojson = result.geojson
             ELSE /\ res.status = 502
                  /\ res.error = "Failed to generate route"
                  /\ res.geojson = NoGeoJson
    /\ req.kind = "loop" /\ Len(SentWaypoints) = 0 /\ res.status = 200 =>
          /\ result.valid
          /\ Len(res.geojson.coords) >= 2

\* the whole budget was spent without a validated candidate
C6_Witness ==
    /\ SearchRan /\ ended = "exhausted"
    /\ ~result.valid
    /\ res.status = 502

\* C7: a request whose lat, lng or distanceKm is missing or not a finite
\* number causes no provider request and is answered 400.
C7_InvalidInputRejected ==
    req.lat.t # "num" \/ req.lng.t # "num" \/ req.distanceKm.t # "num" =>
        /\ nReq.round_trip = 0 /\ nReq.directions = 0
        /\ out = NoRequest
        /\ pc = "done" => res.status = 400

\* C8: a reroute request none of whose blocked segments can be converted
\* causes no provider request, and when it passes the check of the required
\* fields it is answered 400 "No valid blockedSegments received".
C8_NoAvoidablePath ==
    req.kind = "reroute" /\ NoConvertibleSegment =>
        /\ nReq.round_trip = 0 /\ nReq.directions = 0
        /\ out = NoRequest
        /\ pc # "received" =>
              /\ pc = "done"
              /\ res.status = 400
              /\ res.geojson = NoGeoJson
              /\ RequiredFieldsPass =>
                    res.error = "No valid blockedSegments received"

\* a complete request whose two blocked segments are an endpoint-less one
\* and one with a string coordinate has been answered
C8_Witness ==
    /\ req.kind = "reroute" /\ NoConvertibleSegment /\ RequiredFieldsPass
    /\ Len(req.blockedSegments.items) = 2
    /\ pc = "done"
    /\ res.error = "No valid blockedSegments received"

\* C9: a loop request issues at most one directions request, and its
\* coordinate list is the start, the handler's n waypoints in order, the
\* start: n + 2 entries, the caller's finite waypoints first, in the order
\* sent.
C9_DirectionsCoordinateList ==
    req.kind = "loop" =>
        /\ nReq.directions <= 1
        /\ pc = "directions" =>
              LET c == out.coordinates
                  n == Len(wps)
                  sent == SentWaypoints
              IN  /\ nReq.directions = 1
                  /\ out.op = "directions"
                  /\ Len(c) = n + 2
                  /\ c[1] = StartCoord
                  /\ c[n + 2] = StartCoord
                  /\ \A k \in 1..n : c[k + 1] = <<wps[k].lng, wps[k].lat>>
                  /\ Len(sent) >= 1
                  /\ Len(sent) <= n
                  /\ \A k \in 1..Len(sent) :
                        c[k + 1] = <<sent[k].lng.v, sent[k].lat.v>>

\* the directions request of a caller who sent two distinct finite waypoints
C9_Witness ==
    /\ req.kind = "loop" /\ pc = "directions"
    /\ Len(SentWaypoints) = 2
    /\ SentWaypoints[1] # SentWaypoints[2]
    /\ Len(out.coordinates) = 4

\* C10: for a caller with exactly one finite waypoint the handler routes
\* through that waypoint and one detour waypoint, whose offset from the
\* waypoint is clamp(targetM * 0.08, 250, 900) metres (to the metre grid),
\* within [250, 900], at a right angle to the start-to-waypoint direction.
C10_SingleWaypointDetour ==
    req.kind = "loop" /\ pc = "directions" /\ Len(SentWaypoints) = 1 =>
        /\ Len(wps) = 2
        /\ wps[1] = [lat |-> SentWaypoints[1].lat.v, lng |-> SentWaypoints[1].lng.v]
        /\ wps[2].lat # NaN /\ wps[2].lng # NaN
        /\ targetM # NaN
        /\ LET dx == DegToMeters(wps[2].lng - wps[1].lng)
               dy == DegToMeters(wps[2].lat - wps[1].lat)
               vx == DegToMeters(wps[1].lng - startLng)
               vy == DegToMeters(wps[1].lat - startLat)
               offset == Max(250, Min(900, (targetM * 8) \div 100))
           IN  /\ startLat # NaN /\ startLng # NaN
               /\ Abs(Hypot(dx, dy) - offset) <= 3
               /\ Hypot(dx, dy) >= 250 - 3 /\ Hypot(dx, dy) <= 900 + 3
               /\ Abs(dx * vx + dy * vy) <= 3 * (Abs(vx) + Abs(vy))

\* C11: when the directions request of a loop request is answered with a
\* path whose length is not less than the target, the handler answers at
\* once: no round-trip request is issued, and the response carries that path
\* and its length; a loop response that followed no round-trip request
\* carries the path of the directions answer.
C11_NoAdjustmentWhenLongEnough ==
    /\ [](req.kind = "loop" /\ pc = "done" /\ res.status = 200
             /\ nReq.directions = 1 /\ nReq.round_trip = 0 =>
            res.geojson = geojson /\ res.distM = distM)
    /\ [][req.kind = "loop" /\ pc = "directions" /\ distM' # Null
             /\ (targetM = NaN \/ distM' >= targetM) =>
            /\ geojson' \in DirectionsPayloads(out.coordinates)
            /\ pc' = "done"
            /\ out' = NoRequest
            /\ nReq' = nReq
            /\ nReq.round_trip = 0
            /\ res'.status = 200
            /\ res'.geojson = geojson'
            /\ res'.distM = lineDistanceM(geojson'.coords)]_vars

\* a directions path longer than the target was returned as it came
C11_Witness ==
    /\ req.kind = "loop" /\ pc = "done" /\ res.status = 200
    /\ nReq.directions = 1 /\ nReq.round_trip = 0
    /\ targetM # NaN
    /\ res.distM > targetM
    /\ Len(res.geojson.coords) >= 4

\* merged is base with filler inserted right after an occurrence of the
\* anchor: base up to the anchor, the filler (with or without its first
\* point, which is the anchor again), the rest of base
Spliced(base, filler, merged, anchorCoord) ==
    \E k \in 1..Len(base) :
        /\ base[k] = anchorCoord
        /\ \/ merged = SubSeq(base, 1, k) \o filler \o SubSeq(base, k + 1, Len(base))
           \/ merged = SubSeq(base, 1, k) \o Tail(filler)
                           \o SubSeq(base, k + 1, Len(base))

\* C12: when the filler search of a loop request found a filler, the path
\* of the response is the base path with the filler's points inserted
\* directly after the anchor point, followed by the base path's points that
\* came after the anchor.
C12_FillerSplicedAfterAnchor ==
    [][req.kind = "loop" /\ pc = "filler" /\ pc' = "done"
          /\ res'.status = 200 /\ best'.valid =>
         Spliced(geojson.coords, best'.geojson.coords, res'.geojson.coords,
                 <<anchor.lng, anchor.lat>>)]_vars

\* the distance of point k of path c from the request's start
FromStart(c, k) == haversineM(startLat, startLng, Lat(c[k]), Lng(c[k]))

\* the indices of the points of c that are farthest from the start
Farthest(c) ==
    {k \in 1..Len(c) : \A j \in 1..Len(c) : FromStart(c, j) <= FromStart(c, k)}

\* C13: while the filler search of a loop request runs, the anchor is a
\* point of the base path farthest from the start if that distance is
\* >= 600 m, else the first waypoint if there is one, else the start; and the
\* round-trip request in flight starts at the anchor.
C13_FillerAnchor ==
    req.kind = "loop" /\ pc = "filler" =>
        LET c == geojson.coords
        IN  /\ Len(c) >= 2
            /\ IF \E k \in Farthest(c) : FromStart(c, k) >= 600
               THEN \E k \in Farthest(c) :
                       anchor = [lat |-> Lat(c[k]), lng |-> Lng(c[k])]
               ELSE IF Len(wps) >= 1 THEN anchor = wps[1]
               ELSE anchor = [lat |-> startLat, lng |-> startLng]
            /\ out.op = "round_trip"
            /\ out.coordinates = <<<<anchor.lng, anchor.lat>>>>
            /\ nReq.round_trip = a + 1

\* the last filler request of a route that stays within 600 m of the start
\* starts at the first waypoint
C13_Witness ==
    /\ req.kind = "loop" /\ pc = "filler"
    /\ a = fillerAttempts - 1
    /\ \A k \in 1..Len(geojson.coords) : FromStart(geojson.coords, k) < 600
    /\ anchor = wps[1]
    /\ out.coordinates = <<<<wps[1].lng, wps[1].lat>>>>

\* overlap * 1.0 + relativeDistanceError * 0.2 of path c against length len
FillerScore(c, len) ==
    LET ov == Reduce(overlapRatio(c, 20))
        err == Reduce(<<Abs(lineDistanceM(c) - len), len>>)
    IN  Reduce(<<5 * ov[1] * err[2] + err[1] * ov[2], 5 * ov[2] * err[2]>>)

\* C14: the filler search makes one round-trip request per attempt and ends
\* only after its 14th, whatever it has found (a score of 0 included); what
\* it returns is null exactly when no attempt validated a candidate, else a
\* validated candidate whose score, overlap + 0.2 * relative distance error,
\* no validated candidate undercuts.
C14_FillerExhaustsBudget ==
    FillerRan =>
        /\ nReq.round_trip <= fillerAttempts
        /\ pc = "filler" => a < fillerAttempts /\ nReq.round_trip = a + 1
        /\ best.valid <=> seen # {}
        /\ best.valid =>
              /\ best.score \in seen
              /\ \A s \in seen : ~RatioLt(s, best.score)
              /\ Reduce(best.score) = FillerScore(best.geojson.coords, fillerM)
        /\ pc = "done" /\ res.status = 200 =>
              /\ a = fillerAttempts
              /\ nReq.round_trip = fillerAttempts

\* a search that held a candidate of score 0 and one of a higher score has
\* spent all 14 requests
C14_Witness ==
    /\ FillerRan /\ pc = "done" /\ res.status = 200
    /\ nReq.round_trip = fillerAttempts
    /\ best.valid /\ best.score[1] = 0
    /\ Cardinality(seen) = 2

\* the 1-based positions of the points sampled from a path of len points: all
\* of them when there are at most 7, else Math.round(i / 6 * (len - 1)) for
\* i = 0..6
SamplePositions(len) ==
    IF len <= 7 THEN [i \in 1..len |-> i]
    ELSE [i \in 1..7 |-> (2 * (i - 1) * (len - 1) + 6) \div 12 + 1]

\* C15: a reroute request issues no round-trip request and at most one
\* directions request; that request carries the avoid polygons and the
\* coordinate list start, the sampled points of the prior route without the
\* first and the last sample (at most 5, in route order), the caller's
\* finite waypoints in order, start.
C15_RerouteCoordinateList ==
    req.kind = "reroute" =>
        /\ nReq.round_trip = 0
        /\ nReq.directions <= 1
        /\ pc = "done" /\ res.status = 200 => nReq.directions = 1
        /\ pc = "reroute" =>
              LET prior == req.routeGeo.coords
                  at == SamplePositions(Len(prior))
                  inner == [i \in 1..(Len(at) - 2) |-> prior[at[i + 1]]]
                  sent == SentWaypoints
                  c == out.coordinates
              IN  /\ nReq.directions = 1
                  /\ out.op = "directions"
                  /\ out.avoid # << >>
                  /\ Len(inner) <= 5
                  /\ \A i \in 1..(Len(at) - 1) : at[i] < at[i + 1]
                  /\ c = <<StartCoord>> \o inner
                           \o [k \in 1..Len(sent) |-> <<sent[k].lng.v, sent[k].lat.v>>]
                           \o <<StartCoord>>

\* the request for a 41-point prior route and two waypoints: start, 5
\* sampled points, 2 waypoints, start
C15_Witness ==
    /\ req.kind = "reroute" /\ pc = "reroute"
    /\ Len(req.routeGeo.coords) > 7
    /\ Len(SentWaypoints) = 2
    /\ Len(out.coordinates) = 9

\* the convertible blocked segments of the request, in the order sent
ValidSegments ==
    IF req.blockedSegments.isArray
    THEN SelectSeq(req.blockedSegments.items, Convertible)
    ELSE << >>

\* ring is the closed rectangle A+n, A-n, B-n, B+n, A+n around segment seg,
\* n at a right angle to the segment and halfWidth metres long (to the grid)
RectangleAround(ring, seg, halfWidth) ==
    LET A == <<seg.a.lng.v, seg.a.lat.v>>
        B == <<seg.b.lng.v, seg.b.lat.v>>
        n == <<ring[1][1] - A[1], ring[1][2] - A[2]>>
    IN  /\ Len(ring) = 5
        /\ ring[1] = <<A[1] + n[1], A[2] + n[2]>>
        /\ ring[2] = <<A[1] - n[1], A[2] - n[2]>>
        /\ ring[3] = <<B[1] - n[1], B[2] - n[2]>>
        /\ ring[4] = <<B[1] + n[1], B[2] + n[2]>>
        /\ ring[5] = ring[1]
        /\ Abs(Hypot(DegToMeters(n[1]), DegToMeters(n[2])) - halfWidth) <= 2
        /\ Abs(n[1] * (B[1] - A[1]) + n[2] * (B[2] - A[2]))
              <= Abs(B[1] - A[1]) + Abs(B[2] - A[2])

\* C16: buildAvoidPolygons of a reroute request's blocked segments holds one
\* polygon per convertible segment, in the order sent, each a single closed
\* 5-vertex rectangle 18 m to each side of its segment; it is null (empty)
\* exactly when no segment is convertible; and it is what the directions
\* request carries.
C16_OnePolygonPerValidSegment ==
    req.kind = "reroute" =>
        LET polys == buildAvoidPolygons(req.blockedSegments, halfWidthMeters)
            valid == ValidSegments
        IN  /\ Len(polys) = Len(valid)
            /\ polys = << >> <=> NoConvertibleSegment
            /\ \A k \in 1..Len(valid) :
                  /\ Len(polys[k]) = 1
                  /\ RectangleAround(polys[k][1], valid[k], halfWidthMeters)
            /\ pc = "reroute" => out.avoid = polys

\* two convertible segments sent, two polygons carried
C16_Witness ==
    /\ req.kind = "reroute" /\ pc = "reroute"
    /\ Len(ValidSegments) = 2
    /\ Len(out.avoid) = 2
    /\ out.avoid[1] # out.avoid[2]

\* r is a ratio of two numbers, neither NaN nor null
IsNumberRatio(r) == r[1] \notin {NaN, Null} /\ r[2] \notin {NaN, Null, 0}

\* C17: every successful /api/loop response carries an overlap in [0, 1], a
\* length and a target that are numbers, and distError equal to
\* |distM - targetM| / targetM, a non-negative number.
C17_MetricsSatisfyRouteModel ==
    req.kind = "loop" /\ pc = "done" /\ res.status = 200 =>
        /\ IsNumberRatio(res.overlap)
        /\ RatioLe(<<0, 1>>, res.overlap) /\ RatioLe(res.overlap, One)
        /\ res.distM \notin {NaN, Null}
        /\ res.targetM \notin {NaN, Null}
        /\ res.targetM > 0
        /\ IsNumberRatio(res.distError)
        /\ res.distError = <<Abs(res.distM - res.targetM), res.targetM>>

\* ------------------------------------------------------------------------
\* The analyzers on provider geometry: one attempt of generateLoopGeoJson
\* ------------------------------------------------------------------------

\* the side, in segments, of the smallest and largest two-lap loop
MinLapSide == 3

MaxLapSide == 6

\* the first points of the shortest and the longest spur path, and the most
\* points that follow the spur
MinSpurLead == 20

MaxSpurLead == 22

MaxSpurTrail == 2

\* one lap from p: k segments of 40 m east, 40 m north, k segments west and
\* back south in m pieces; 2k + 1 + m segments, all in different grid cells
Lap(p, k, m) ==
    <<p>> \o Side(p, 20, 0, k, 1)
          \o Side(Shift(p, 20 * k, 0), 0, 20, 1, 1)
          \o Side(Shift(p, 20 * k, 20), -20, 0, k, 1)
          \o Side(Shift(p, 0, 20), 0, -(20 \div m), m, 1)

\* the lap walked twice: every segment of the second lap lies on the segment
\* 2k + 1 + m indices before it
TwoLaps(p, k, m) == Lap(p, k, m) \o Tail(Lap(p, k, m))

\* lead points 200 m apart heading east, then from the next point 9 steps of
\* 4 m north and 9 steps back onto it, then trail points 200 m apart
SpurPath(p, lead, trail) ==
    LET s == Shift(p, 100 * lead, 0)
    IN  Side(p, 100, 0, lead - 1, 0) \o <<s>>
            \o Side(s, 0, 2, 9, 1) \o Side(Shift(s, 0, 18), 0, -2, 9, 1)
            \o Side(s, 100, 0, trail, 1)

\* the geometries a round-trip answer is drawn from
AnalyzerPaths ==
    {TwoLaps(Home, k, m) : k \in MinLapSide..MaxLapSide, m \in 1..2}
        \cup {SpurPath(Home, lead, trail) :
                lead \in MinSpurLead..MaxSpurLead, trail \in 0..MaxSpurTrail}

\* generateLoopGeoJson in attempt a of a well-formed request without
\* waypoints, the provider's answer (the local geojson) in hand
AnalyzerInit ==
    /\ req \in {r \in LoopRequests :
                  /\ r.lat = Num(HomeLat) /\ r.lng = Num(HomeLng)
                  /\ r.distanceKm = Num(2) /\ r.waypoints = NoArray}
    /\ pc = "roundtrip"
    /\ a \in 0..(attempts - 1)
    /\ best = NoCandidate
    /\ result = NoCandidate
    /\ ended = ""
    /\ seen = {}
    /\ wps = << >>
    /\ geojson \in {GeoJson(c, Null) : c \in AnalyzerPaths}
    /\ distM = Null
    /\ fillerM = 0
    /\ anchor = [lat |-> 0, lng |-> 0]
    /\ out = RoundTripRequest(HomeLat, HomeLng, 2000, PointsOf(a), 0)
    /\ nReq = [round_trip |-> a + 1, directions |-> 0]
    /\ res = NoResponse
    /\ client = InitialClient

\* the body of the attempt: the candidate made of the answer, or none
EvaluateGeometry ==
    /\ pc = "roundtrip"
    /\ UNCHANGED client
    /\ pc' = "done"
    /\ result' = LoopCandidate(geojson, targetM, req.avoidSpurs, a)
    /\ res' = LoopResponse(result')
    /\ out' = NoRequest
    /\ UNCHANGED <<req, a, best, ended, seen, wps, geojson, distM, fillerM,
                   anchor, nReq>>

AnalyzerNext == EvaluateGeometry

AnalyzerSpec == AnalyzerInit /\ [][AnalyzerNext]_vars

\* the 1-based index of the first segment of c whose midpoint lies in the
\* cell of segment i's midpoint
FirstTouch(c, gridMeters, i) ==
    CHOOSE k \in 1..i :
        /\ CellKey(c[k], c[k + 1], gridMeters) = CellKey(c[i], c[i + 1], gridMeters)
        /\ \A h \in 1..(k - 1) :
              CellKey(c[h], c[h + 1], gridMeters) # CellKey(c[i], c[i + 1], gridMeters)

RECURSIVE SumSegments(_, _)
SumSegments(c, S) ==
    IF S = {} THEN 0
    ELSE LET i == CHOOSE x \in S : TRUE
         IN  haversineM(Lat(c[i]), Lng(c[i]), Lat(c[i + 1]), Lng(c[i + 1]))
                + SumSegments(c, S \ {i})

\* the length of the segments of c whose cell was first touched at least
\* gap indices earlier, over the length of c
OverlapAtGap(c, gridMeters, gap) ==
    <<SumSegments(c, {i \in 1..(Len(c) - 1) : i - FirstTouch(c, gridMeters, i) >= gap}),
      SumSegments(c, 1..(Len(c) - 1))>>

\* C18: the overlap of a candidate is the length of the segments whose
\* midpoint cell was first touched by a segment at least 12 indices earlier,
\* over the length of the path.
C18_OverlapCountsFromTwelve ==
    pc = "done" /\ result.valid =>
        result.overlap = OverlapAtGap(getCoords(result.geojson), GridM, 12)

\* the length of c from point i to point j (0-based)
PathLength(c, i, j) == SumSegments(c, (i + 1)..j)

\* some start index i anywhere in c and some j, 18 to 90 steps on, such
\* that point j is within 12 m of point i and the path from i to j is no
\* longer than maxDetourM
SpurAnywhere(c, maxDetourM) ==
    \E i \in 0..(Len(c) - 1) :
        \E j \in (i + minSteps)..Min(i + maxSteps, Len(c) - 1) :
            /\ haversineM(Lat(At(c, i)), Lng(At(c, i)),
                          Lat(At(c, j)), Lng(At(c, j))) <= closeM
            /\ PathLength(c, i, j) <= maxDetourM

\* C19: a geometry of at least 40 points is rejected by a spur-avoiding
\* search exactly when some start index anywhere in it has a point 18 to 90
\* steps on within 12 m, reached within maxDetourMeters; a shorter geometry
\* is never rejected as a spur.
C19_SpurFoundAtEveryStartIndex ==
    pc = "done" /\ req.avoidSpurs =>
        LET c == getCoords(geojson)
        IN  ~result.valid <=>
                Len(c) >= MinSpurPoints /\ SpurAnywhere(c, SpurDetourM)

\* C20: the round-trip search issues at most 10 provider requests; the
\* request of attempt a (0-based) asks for 6 points when a is even and 8
\* when it is odd, so a request never repeats the point count of the one
\* before it.
C20_AlternatingPointCount ==
    /\ [](SearchRan => nReq.round_trip <= attempts /\ nReq.directions = 0)
    /\ [](req.kind = "loop" /\ pc = "roundtrip" =>
            /\ a \in 0..(attempts - 1)
            /\ nReq.round_trip = a + 1
            /\ out.op = "round_trip"
            /\ out.points = IF a % 2 = 0 THEN 6 ELSE 8)
    /\ [][pc = "roundtrip" /\ pc' = "roundtrip" =>
            /\ a' = a + 1
            /\ out'.points # out.points
            /\ out'.points \in {6, 8}]_vars

\* the tenth and last request of a search, asking for 8 points
C20_Witness ==
    /\ SearchRan /\ pc = "roundtrip"
    /\ a = attempts - 1
    /\ nReq.round_trip = attempts
    /\ out.points = 8

\* candidate c passes every skip test of generateLoopGeoJson
NotSkippable(c, avoidSpurs) ==
    LET coords == c.geojson.coords
    IN  /\ Len(coords) >= 2
        /\ c.distM \notin {Null, NaN}
        /\ c.distM > 0
        /\ c.distM = IF c.geojson.dist # Null THEN c.geojson.dist
                     ELSE lineDistanceM(coords)
        /\ avoidSpurs => ~hasShortOutAndBackSpur(coords, SpurDetourM)

\* C21: the best candidate of a round-trip search, and the candidate it
\* returns, has at least 2 coordinates, a distance that is present, not NaN
\* and > 0, and no spur (threshold 160 m) when spur avoidance is on; best is
\* never lost, and is replaced only by such a candidate.
C21_SkippedNeverReturned ==
    /\ [](SearchRan =>
            /\ best.valid => NotSkippable(best, req.avoidSpurs)
            /\ result.valid => NotSkippable(result, req.avoidSpurs)
            /\ pc = "done" /\ res.status = 200 =>
                  /\ result.valid
                  /\ res.geojson = result.geojson
                  /\ res.distM = result.distM)
    /\ [][req.kind = "loop" /\ pc = "roundtrip" =>
            /\ best.valid => best'.valid
            /\ best' # best => NotSkippable(best', req.avoidSpurs)]_vars

\* a spur-avoiding search skipped its first attempt and returned the
\* candidate of its second
C21_Witness ==
    /\ SearchRan /\ req.avoidSpurs
    /\ ended = "exhausted"
    /\ result.valid
    /\ result.attemptsTried = 2
    /\ Cardinality(seen) = 1

\* C22: the handler of a waypoint request starts the filler search exactly
\* when the directions route has a length below the target, with the length
\* max(1600, target - route length) and a first request to the provider; the
\* search keeps that length, issues at most 14 requests and is not started
\* again.
C22_FillerIffTooShort ==
    /\ [](FillerRan =>
            /\ fillerM >= MinFillerM
            /\ nReq.round_trip <= fillerAttempts
            /\ pc = "filler" => out.op = "round_trip" /\ out.length = fillerM)
    /\ [](req.kind = "loop" /\ nReq.directions = 1 /\ nReq.round_trip = 0
            /\ pc = "done" /\ res.status = 200 =>
               distM = Null \/ targetM = NaN \/ distM >= targetM)
    /\ [][req.kind = "loop" /\ pc = "directions" =>
            /\ pc' = "filler" <=>
                  distM' # Null /\ targetM # NaN /\ distM' < targetM
            /\ pc' = "filler" =>
                  /\ distM' = lineDistanceM(getCoords(geojson'))
                  /\ fillerM' = IF targetM - distM' > 1600
                                THEN targetM - distM' ELSE 1600
                  /\ out'.length = fillerM'
                  /\ nReq'.round_trip = 1
                  /\ a' = 0]_vars
    /\ [][pc = "filler" =>
            /\ pc' \in {"filler", "done"}
            /\ fillerM' = fillerM
            /\ nReq'.directions = 1]_vars

\* a directions route 0 < length < target that misses less than 1600 m: the
\* filler is asked for the floor
C22_Witness ==
    /\ FillerRan /\ pc = "filler"
    /\ distM > 0
    /\ targetM - distM \in 1..(MinFillerM - 1)
    /\ fillerM = MinFillerM
    /\ out.length = MinFillerM

\* ------------------------------------------------------------------------
\* The join of a base route and a filler: the end of the waypoint pipeline
\* ------------------------------------------------------------------------

\* the most points of a base route and of a filler
MaxBaseLen == 5

MaxFillerLen == 3

\* base routes: n points 20 m apart heading east from Home, n = 0 for none
BaseRoute(n) == Side(Home, 10, 0, n - 1, 0)

\* where a base route of n points ends (Home for the empty route)
BaseEnd(n) == IF n = 0 THEN Home ELSE Shift(Home, 10 * (n - 1), 0)

\* fillers: n points 20 m apart heading north from p
Filler(p, n) == Side(p, 0, 10, n - 1, 0)

\* a base route and a filler that starts on the base's end, 2 m east of it,
\* 2 m north of it or both, or is empty
FillersAt(p) ==
    {<< >>} \cup {Filler(Shift(p, e[1], e[2]), k) :
                    e \in (0..1) \X (0..1), k \in 1..MaxFillerLen}

JoinInputs ==
    UNION {{<<GeoJson(BaseRoute(n), Null), GeoJson(f, Null)>> :
                f \in FillersAt(BaseEnd(n))} : n \in 0..MaxBaseLen}

\* the waypoint pipeline with the directions route and the filler in hand
JoinInit ==
    /\ req \in {r \in LoopRequests :
                  /\ r.lat = Num(HomeLat) /\ r.lng = Num(HomeLng)
                  /\ r.distanceKm = Num(4)
                  /\ r.waypoints = Array(SubSeq(WaypointInputs, 1, 2))}
    /\ pc = "filler"
    /\ a = fillerAttempts
    /\ \E pair \in JoinInputs :
          /\ geojson = pair[1]
          /\ best = [NoCandidate EXCEPT !.valid = TRUE, !.geojson = pair[2]]
          /\ distM = lineDistanceM(getCoords(pair[1]))
    /\ result = NoCandidate
    /\ ended = ""
    /\ seen = {}
    /\ wps = normalizeWaypoints(req.waypoints)
    /\ fillerM = MinFillerM
    /\ anchor = [lat |-> HomeLat, lng |-> HomeLng]
    /\ out = NoRequest
    /\ nReq = [round_trip |-> fillerAttempts, directions |-> 1]
    /\ res = NoResponse
    /\ client = InitialClient

\* geojson = concatRoutesGeoJson(geojson, filler), the final metrics and
\* res.json
JoinFiller ==
    /\ pc = "filler"
    /\ UNCHANGED client
    /\ pc' = "done"
    /\ geojson' = concatRoutesGeoJson(geojson, best.geojson)
    /\ distM' = lineDistanceM(getCoords(geojson'))
    /\ res' = FinalResponse(geojson', distM')
    /\ UNCHANGED <<req, a, best, result, ended, seen, wps, fillerM, anchor,
                   out, nReq>>

JoinNext == JoinFiller

JoinSpec == JoinInit /\ [][JoinNext]_vars

\* C23: the join of a base path and a filler is the base followed by the
\* filler, without the filler's first point when that point equals the
\* base's last point in both coordinates (|base| + |filler| - 1 points) and
\* with it otherwise (|base| + |filler| points); when either path is empty
\* the other route is returned as it is.
C23_JoinKeepsEveryPoint ==
    [][pc = "filler" /\ pc' = "done" =>
        LET base == getCoords(geojson)
            filler == getCoords(best.geojson)
            merged == getCoords(geojson')
        IN  /\ res'.geojson = geojson'
            /\ IF base = << >> THEN geojson' = best.geojson
               ELSE IF filler = << >> THEN geojson' = geojson
               ELSE IF filler[1] = base[Len(base)]
               THEN /\ Len(merged) = Len(base) + Len(filler) - 1
                    /\ SubSeq(merged, 1, Len(base)) = base
                    /\ SubSeq(merged, Len(base), Len(merged)) = filler
               ELSE /\ Len(merged) = Len(base) + Len(filler)
                    /\ SubSeq(merged, 1, Len(base)) = base
                    /\ SubSeq(merged, Len(base) + 1, Len(merged)) = filler]_vars

\* the longest base joined with the longest filler that starts on its end:
\* the join point appears once
C23_Witness ==
    /\ pc = "done"
    /\ getCoords(best.geojson) = Filler(BaseEnd(MaxBaseLen), MaxFillerLen)
    /\ getCoords(res.geojson)
          = BaseRoute(MaxBaseLen) \o Tail(Filler(BaseEnd(MaxBaseLen), MaxFillerLen))
    /\ Len(getCoords(res.geojson)) = MaxBaseLen + MaxFillerLen - 1

\* the handler is suspended in an await of a provider call
Waiting == pc \in {"roundtrip", "directions", "filler", "reroute"}

\* provider requests issued so far by the routing request
Issued == nReq.round_trip + nReq.directions

\* C24: a routing request has a provider request outstanding exactly while
\* its handler awaits one, and never more than that one; the next provider
\* request is issued only in the step that takes the answer to the one
\* before, one at a time; and no response is sent while a provider request
\* is outstanding, however long that lasts.
C24_OneRequestOutstanding ==
    /\ [](Waiting <=> out.op # "none")
    /\ [](Waiting => res = NoResponse /\ Issued >= 1)
    /\ [](pc = "done" => out = NoRequest /\ res.status # 0)
    /\ [](pc = "received" => out = NoRequest /\ Issued = 0)
    /\ [][/\ Issued' \in {Issued, Issued + 1}
          /\ Issued' = Issued + 1 =>
                /\ out'.op # "none"
                /\ Waiting \/ (pc = "received" /\ out = NoRequest)
          /\ Waiting /\ Issued' = Issued => pc' = "done" /\ out' = NoRequest
          /\ res' # res => pc' = "done"]_vars

\* the fourth provider request of a waypoint request is outstanding and
\* nothing has been answered
C24_Witness ==
    /\ pc = "filler"
    /\ nReq.directions = 1 /\ nReq.round_trip = 3
    /\ out.op = "round_trip"
    /\ res = NoResponse

\* C25: attemptsTried of the best candidate of a round-trip search is the
\* 1-based number of the attempt that made it best, which is the number of
\* provider requests issued up to then; it is at most the number of requests
\* issued, equal to it when the search exits early, and strictly below it once
\* a later attempt was answered without replacing best; the response carries
\* the returned candidate's attemptsTried.
C25_AttemptsTriedIsBestIndex ==
    /\ [](SearchRan =>
            /\ best.valid => best.attemptsTried \in 1..nReq.round_trip
            /\ result.valid =>
                  /\ result = best
                  /\ result.attemptsTried \in 1..nReq.round_trip
                  /\ ended = "early" => result.attemptsTried = nReq.round_trip
            /\ pc = "done" /\ res.status = 200 =>
                  res.attemptsTried = result.attemptsTried)
    /\ [][SearchRan /\ pc = "roundtrip" =>
            /\ best' # best =>
                  /\ best'.attemptsTried = a + 1
                  /\ best'.attemptsTried = nReq.round_trip
            /\ best.valid /\ best' = best /\ a' = a + 1 /\ pc' = "roundtrip" =>
                  best'.attemptsTried < nReq'.round_trip
            /\ best.valid /\ best' = best /\ result'.valid =>
                  result'.attemptsTried < nReq'.round_trip]_vars

\* the third attempt made the returned candidate and seven more were made
C25_Witness ==
    /\ SearchRan /\ pc = "done" /\ res.status = 200
    /\ res.attemptsTried = 3
    /\ nReq.round_trip = attempts

\* the caller's waypoints with finite coordinates as {lat, lng} of numbers
KeptWaypoints ==
    [k \in 1..Len(SentWaypoints) |->
        [lat |-> SentWaypoints[k].lat.v, lng |-> SentWaypoints[k].lng.v]]

\* C26: once a loop request has passed the required-field test, the
\* handler's waypoints are the caller's waypoints with finite lat and lng,
\* in the order sent; with none left the request takes the round-trip
\* pipeline (no directions request), with one left the directions pipeline
\* through that waypoint and its detour waypoint, with more the directions
\* pipeline through all of them.
C26_WaypointsNormalized ==
    req.kind = "loop" /\ pc # "received" /\ RequiredFieldsPass =>
        /\ normalizeWaypoints(req.waypoints) = KeptWaypoints
        /\ Len(KeptWaypoints) = 0 =>
              /\ wps = << >>
              /\ nReq.directions = 0 /\ nReq.round_trip >= 1
        /\ Len(KeptWaypoints) = 1 =>
              /\ Len(wps) = 2
              /\ wps[1] = KeptWaypoints[1]
              /\ \E side \in {-1, 1} :
                    wps[2] = makeDetourWaypoint([lat |-> startLat, lng |-> startLng],
                                                KeptWaypoints[1],
                                                DetourOffset(targetM), side)
              /\ nReq.directions = 1
        /\ Len(KeptWaypoints) >= 2 =>
              /\ wps = KeptWaypoints
              /\ nReq.directions = 1

\* a waypoint with a string latitude was dropped and the one after it
\* survives alone
C26_Witness ==
    /\ req.kind = "loop" /\ pc = "directions"
    /\ Len(req.waypoints.items) = 2
    /\ req.waypoints.items[1].lat.t = "str"
    /\ Len(KeptWaypoints) = 1
    /\ wps[1] = [lat |-> req.waypoints.items[2].lat.v,
                 lng |-> req.waypoints.items[2].lng.v]

\* the field holds the number 0 or is absent
ZeroOrAbsent(x) == x = Num(0) \/ x = Undef

\* C27: a loop or reroute request whose lat or lng is the number 0 or is
\* absent causes no provider request and is answered 400 with the handler's
\* "Missing ..." error, the same answer in both cases.
C27_ZeroCoordinateRejected ==
    ZeroOrAbsent(req.lat) \/ ZeroOrAbsent(req.lng) =>
        /\ nReq.round_trip = 0 /\ nReq.directions = 0
        /\ out = NoRequest
        /\ pc \in {"received", "done"}
        /\ pc = "done" =>
              res = [NoResponse EXCEPT
                        !.status = 400,
                        !.error = IF req.kind = "loop"
                                  THEN "Missing lat/lng/distanceKm"
                                  ELSE "Missing lat/lng/distanceKm/routeGeo"]

\* a reroute request that is complete but for a latitude of 0 was rejected
C27_Witness ==
    /\ req.kind = "reroute" /\ pc = "done"
    /\ req.lat = Num(0)
    /\ Truthy(req.lng) /\ Truthy(req.distanceKm) /\ req.hasRouteGeo
    /\ ~NoConvertibleSegment
    /\ res.status = 400

\* ------------------------------------------------------------------------
\* The browser client (App.jsx): modes, route and blocked segments
\* ------------------------------------------------------------------------
\* client.pending is the fetch the client awaits ("none", "loop" or
\* "reroute"), client.body the blockedSegments of the reroute request in
\* flight, client.alert the alert the last action raised; the displayed metrics
\* (distM, overlap, attemptsTried) and distanceKm are not part of the state.

\* the most waypoints the user places
MaxClientWaypoints == 1

Route(coords) == [isNull |-> FALSE, geojson |-> GeoJson(coords, Null)]

\* data.geojson of a successful response: a loop of 5 points, paths of 3 and
\* of 2 points, and an object without coordinates
ClientRoutes ==
    { Route(SquareLoop(Home, 250, 1)),
      Route(<<Home, Shift(Home, 100, 0), Home>>),
      Route(<<Home, Shift(Home, 0, 100)>>),
      Route(<< >>) }

\* where the user clicks the map
ClickPoints == {[isNull |-> FALSE, lat |-> HomeLat, lng |-> HomeLng],
                [isNull |-> FALSE, lat |-> HomeLat + 20, lng |-> HomeLng]}

\* geojsonToLatLngs: [lat, lng] per coordinate, [] without coordinates
geojsonToLatLngs(routeGeo) ==
    IF routeGeo.isNull THEN << >>
    ELSE [k \in 1..Len(routeGeo.geojson.coords) |->
             <<Lat(routeGeo.geojson.coords[k]), Lng(routeGeo.geojson.coords[k])>>]

\* const polyline = useMemo(() => geojsonToLatLngs(routeGeo), [routeGeo])
polyline(c) == geojsonToLatLngs(c.routeGeo)

toggleWaypointMode(c) ==
    [c EXCEPT !.waypointMode = ~@,
              !.waypoints = IF c.waypointMode THEN << >> ELSE @,
              !.avoidMode = FALSE]

addWaypoint(c, p) == [c EXCEPT !.waypoints = Append(@, p)]

\* toggleAvoidMode that leaves waypointMode as it is
toggleAvoidModeKeepingWaypointMode(c) ==
    IF c.routeGeo.isNull THEN c ELSE [c EXCEPT !.avoidMode = ~@]

toggleAvoidMode(c) ==
    IF c.routeGeo.isNull THEN c
    ELSE [c EXCEPT !.avoidMode = ~@, !.waypointMode = FALSE]

clearBlocked(c) == [c EXCEPT !.blockedSegments = {}]

\* RouteSegments.handleClickOnRoute; bestIdx (0-based) is the segment nearest
\* to the click
handleClickOnRoute(c, bestIdx) ==
    IF ~c.avoidMode THEN c
    ELSE [c EXCEPT !.blockedSegments =
                      IF bestIdx \in @ THEN @ \ {bestIdx} ELSE @ \cup {bestIdx}]

\* the blocked segments as {a, b} of [lat, lng] points of the polyline
buildBlockedSegmentsPayload(c) ==
    IF Len(polyline(c)) < 2 THEN {}
    ELSE {[a |-> polyline(c)[i + 1], b |-> polyline(c)[i + 2]] :
             i \in c.blockedSegments}

\* generateLoop up to its await
generateLoop(c) ==
    IF c.loading THEN c
    ELSE IF c.pos.isNull THEN [c EXCEPT !.alert = "Use your location first"]
    ELSE [c EXCEPT !.loading = TRUE, !.routeGeo = NoRoute,
                   !.avoidMode = FALSE, !.blockedSegments = {},
                   !.pending = "loop"]

\* generateLoop after its await: data.geojson of an ok response, or the catch
generateLoopSettled(c, ok, data) ==
    IF ok
    THEN [c EXCEPT !.routeGeo = data, !.loading = FALSE, !.pending = "none"]
    ELSE [c EXCEPT !.alert = "Failed to generate route", !.loading = FALSE,
                   !.pending = "none"]

\* rerouteAroundBlocked up to its await
rerouteAroundBlocked(c) ==
    IF c.loading THEN c
    ELSE IF c.routeGeo.isNull \/ c.pos.isNull
    THEN [c EXCEPT !.alert = "Generate a route first"]
    ELSE IF c.blockedSegments = {}
    THEN [c EXCEPT !.alert = "Block at least 1 segment (turn it red) first."]
    ELSE [c EXCEPT !.loading = TRUE, !.pending = "reroute",
                   !.body = buildBlockedSegmentsPayload(c)]

\* rerouteSettled that keeps the selection
rerouteSettledKeepingSelection(c, ok, data) ==
    IF ok
    THEN [c EXCEPT !.routeGeo = data, !.avoidMode = FALSE,
                   !.loading = FALSE, !.pending = "none", !.body = {}]
    ELSE [c EXCEPT !.alert = "Failed to reroute", !.loading = FALSE,
                   !.pending = "none", !.body = {}]

\* rerouteAroundBlocked after its await
rerouteSettled(c, ok, data) ==
    IF ok
    THEN [c EXCEPT !.routeGeo = data, !.blockedSegments = {},
                   !.avoidMode = FALSE, !.loading = FALSE, !.pending = "none",
                   !.body = {}]
    ELSE [c EXCEPT !.alert = "Failed to reroute", !.loading = FALSE,
                   !.pending = "none", !.body = {}]

\* c with the alert of the action before dismissed
Quiet(c) == [c EXCEPT !.alert = ""]

mapClickEnabledForStart(c) == ~c.avoidMode /\ ~c.waypointMode

mapClickEnabledForWaypoints(c) == ~c.avoidMode /\ c.waypointMode

\* the user's actions, each enabled when its button or handler is

UseMyLocation ==
    /\ client' = [Quiet(client) EXCEPT !.pos = [isNull |-> FALSE,
                                                lat |-> HomeLat,
                                                lng |-> HomeLng]]
    /\ UNCHANGED serverVars

SelectStart ==
    /\ mapClickEnabledForStart(client)
    /\ \E p \in ClickPoints : client' = [Quiet(client) EXCEPT !.pos = p]
    /\ UNCHANGED serverVars

AddWaypoint ==
    /\ mapClickEnabledForWaypoints(client)
    /\ Len(client.waypoints) < MaxClientWaypoints
    /\ \E p \in ClickPoints : client' = addWaypoint(Quiet(client), p)
    /\ UNCHANGED serverVars

ToggleWaypointMode ==
    /\ client' = toggleWaypointMode(Quiet(client))
    /\ UNCHANGED serverVars

ToggleAvoidMode ==
    /\ ~client.routeGeo.isNull
    /\ client' = toggleAvoidMode(Quiet(client))
    /\ UNCHANGED serverVars

ClickOnRoute ==
    /\ Len(polyline(client)) >= 2
    /\ \E bestIdx \in 0..(Len(polyline(client)) - 2) :
          client' = handleClickOnRoute(Quiet(client), bestIdx)
    /\ UNCHANGED serverVars

ClearBlocked ==
    /\ ~client.routeGeo.isNull /\ client.blockedSegments # {}
    /\ client' = clearBlocked(Quiet(client))
    /\ UNCHANGED serverVars

GenerateLoop ==
    /\ ~client.loading
    /\ client' = generateLoop(Quiet(client))
    /\ UNCHANGED serverVars

GenerateLoopSettled ==
    /\ client.pending = "loop"
    /\ \E ok \in BOOLEAN, data \in ClientRoutes :
          client' = generateLoopSettled(Quiet(client), ok, data)
    /\ UNCHANGED serverVars

RerouteAroundBlocked ==
    /\ ~client.loading /\ ~client.routeGeo.isNull /\ client.blockedSegments # {}
    /\ client' = rerouteAroundBlocked(Quiet(client))
    /\ UNCHANGED serverVars

RerouteSettled ==
    /\ client.pending = "reroute"
    /\ \E ok \in BOOLEAN, data \in ClientRoutes :
          client' = rerouteSettled(Quiet(client), ok, data)
    /\ UNCHANGED serverVars

\* the page as loaded; the server's variables stay as they start
ClientInit ==
    /\ req \in {r \in LoopRequests :
                  /\ r.lat = Num(HomeLat) /\ r.lng = Num(HomeLng)
                  /\ r.distanceKm = Num(2) /\ r.waypoints = NoArray
                  /\ r.avoidSpurs}
    /\ pc = "received"
    /\ a = 0
    /\ best = NoCandidate
    /\ result = NoCandidate
    /\ ended = ""
    /\ seen = {}
    /\ wps = << >>
    /\ geojson = NoGeoJson
    /\ distM = Null
    /\ fillerM = 0
    /\ anchor = [lat |-> 0, lng |-> 0]
    /\ out = NoRequest
    /\ nReq = [round_trip |-> 0, directions |-> 0]
    /\ res = NoResponse
    /\ client = InitialClient

ClientNext ==
    \/ UseMyLocation
    \/ SelectStart
    \/ AddWaypoint
    \/ ToggleWaypointMode
    \/ ToggleAvoidMode
    \/ ClickOnRoute
    \/ ClearBlocked
    \/ GenerateLoop
    \/ GenerateLoopSettled
    \/ RerouteAroundBlocked
    \/ RerouteSettled

ClientSpec == ClientInit /\ [][ClientNext]_vars

\* C28: in the client waypointMode and avoidMode are never both on, and
\* avoidMode is on only while routeGeo is not null; so the two map-click
\* handlers are never enabled together and neither is while avoidMode is on.
C28_ModesExclusive ==
    /\ ~(client.waypointMode /\ client.avoidMode)
    /\ client.avoidMode => ~client.routeGeo.isNull
    /\ ~(mapClickEnabledForStart(client) /\ mapClickEnabledForWaypoints(client))
    /\ client.avoidMode =>
          ~mapClickEnabledForStart(client) /\ ~mapClickEnabledForWaypoints(client)

\* avoidMode was switched on from waypointMode: the waypoint placed is still
\* there and waypointMode is off
C28_Witness ==
    /\ client.avoidMode
    /\ ~client.waypointMode
    /\ client.waypoints # << >>
    /\ ~client.routeGeo.isNull

\* seg is a segment of the polyline of c
IsRouteSegment(c, seg) ==
    \E i \in 0..(Len(polyline(c)) - 2) :
        seg = [a |-> polyline(c)[i + 1], b |-> polyline(c)[i + 2]]

\* C29: every index in blockedSegments is the index of a segment of the
\* displayed route, 0 <= i < polyline.length - 1, and the segments sent with
\* a reroute request are segments of that route; whenever routeGeo changes
\* the selection is empty afterwards; a failed reroute leaves route and
\* selection as they were; while a request is loading generateLoop and
\* rerouteAroundBlocked change nothing and no second request is sent.
C29_BlockedWithinRoute ==
    /\ [](\A i \in client.blockedSegments :
             0 <= i /\ i < Len(polyline(client)) - 1)
    /\ [](client.loading <=> client.pending # "none")
    /\ [](client.loading =>
             /\ generateLoop(client) = client
             /\ rerouteAroundBlocked(client) = client)
    /\ [](client.pending = "reroute" =>
             /\ client.body # {}
             /\ \A seg \in client.body : IsRouteSegment(client, seg))
    /\ [][/\ client'.routeGeo # client.routeGeo => client'.blockedSegments = {}
          /\ client.pending = "reroute" /\ client'.alert = "Failed to reroute" =>
                /\ client'.routeGeo = client.routeGeo
                /\ client'.blockedSegments = client.blockedSegments
                /\ ~client'.loading
          /\ client.loading /\ client'.pending # client.pending =>
                client'.pending = "none"]_vars

\* a reroute failed: the 5-point route is still displayed with its last
\* segment blocked
C29_Witness ==
    /\ client.alert = "Failed to reroute"
    /\ ~client.loading
    /\ Len(polyline(client)) = 5
    /\ 3 \in client.blockedSegments

====
